---- MODULE Spec2Model ----
(***************************************************************************)
(* Market-briefing data pipeline: the snapshot store, the brokerage        *)
(* adapter (KISAPIClient), the stored -> live -> backup strategy            *)
(* (MarketDataStrategy), the crawling strategy (MarketCrawlerStrategy),    *)
(* the real-time collector (RealTimeMarketData), the briefing generator    *)
(* (MarketBriefingGenerator), the publisher (ThreadsAPIClient,             *)
(* ThreadsPublisher) and the orchestrator (AutoBriefingSystem).            *)
(*                                                                         *)
(* Prices and changes are integers in hundredths (3227.68 is 322768).      *)
(* A Python dict is a function whose DOMAIN is its key set.  A snapshot is  *)
(* a record [indices, changes, source, generated]; "generated" is a        *)
(* history field: the index names whose value was produced by a sample,    *)
(* dummy or backup generator rather than fetched.                          *)
(***************************************************************************)
EXTENDS Integers, Sequences, FiniteSets

VARIABLES store, today, last, threads_publisher

vars == <<store, today, last, threads_publisher>>

-----------------------------------------------------------------------------
(* Bounds *)

MaxDay == 3

MaxFiles == 2

\* publish_briefing calls made on one ThreadsPublisher.
MaxPosts == 2

\* Length of post_history up to which run_briefing is called on one
\* AutoBriefingSystem.
MaxBriefings == 1

-----------------------------------------------------------------------------
(* Values *)

IndexNames == {"KOSPI", "KOSDAQ", "S&P500", "NASDAQ", "DOW"}

\* A value that is not a number (a str or None where a float is expected).
\* Comparing it with 0 raises TypeError, float() of it raises ValueError.
NonNumeric == -999999

\* A price the remote index query reports (3227.68) and its change (29.54).
RealPrice == 322768

RealChange == 2954

EmptyMap == [n \in {} |-> 0]

Snap(ind, chg, src, gen) ==
  [indices |-> ind, changes |-> chg, source |-> src, generated |-> gen]

\* Python {} (falsy).
EmptyDict == Snap(EmptyMap, EmptyMap, "", {})

\* Python None (falsy).
NoneVal == Snap(EmptyMap, EmptyMap, "None", {})

Truthy(d) == d # EmptyDict /\ d # NoneVal

\* The strict rule: at least 3 indices, every price > 0.
Strict(md) ==
  /\ Cardinality(DOMAIN md.indices) >= 3
  /\ \A n \in DOMAIN md.indices : md.indices[n] > 0

\* dict.update: keys of b overwrite keys of a.
Update(a, b) ==
  [n \in (DOMAIN a) \cup (DOMAIN b) |-> IF n \in DOMAIN b THEN b[n] ELSE a[n]]

-----------------------------------------------------------------------------
(* KISAPIClient *)

\* _get_sample_domestic_index / _get_sample_overseas_index: stck_prpr, last.
SamplePrice ==
  [n \in IndexNames |->
     CASE n = "KOSPI"  -> 250012
       [] n = "KOSDAQ" -> 80045
       [] n = "S&P500" -> 550012
       [] n = "NASDAQ" -> 1790045
       [] n = "DOW"    -> 3850000]

\* prdy_vrss, diff of the same sample records.
SampleChange ==
  [n \in IndexNames |->
     CASE n = "KOSPI"  -> 1523
       [] n = "KOSDAQ" -> 812
       [] n = "S&P500" -> 4423
       [] n = "NASDAQ" -> 19567
       [] n = "DOW"    -> 11550]

\* Outcomes of the remote query inquire_index_price for one index:
\*   "none"  the query failed (None or an empty output dict),
\*   "real"  output with a positive stck_prpr,
\*   "zero"  output whose stck_prpr is absent or "0" (outside trading hours),
\*   "bad"   output whose stck_prpr is not a number ("" or null).
QueryOutcomes == {"none", "real", "zero", "bad"}

\* The pairs <<KOSPI outcome, KOSDAQ outcome>> of one get_market_data call.
QueryPairs == QueryOutcomes \X QueryOutcomes

\* The pairs drawn when a strategy makes the call.
LivePairs ==
  { <<"none", "none">>, <<"real", "zero">>, <<"real", "bad">>,
    <<"zero", "bad">>, <<"bad", "real">> }

\* One index record as get_market_data reads it: price field, change field,
\* and whether the record is a sample record.
IndexRec(p, c, s) == [price |-> p, change |-> c, sample |-> s]

\* get_domestic_index without the "if not self.trenv" guard.
get_domestic_index_no_guard(trenv, name, q) ==
  IF q = "none"
    THEN IndexRec(SamplePrice[name], SampleChange[name], TRUE)
    ELSE CASE q = "real" -> IndexRec(RealPrice, RealChange, FALSE)
           [] q = "zero" -> IndexRec(0, 0, FALSE)
           [] q = "bad"  -> IndexRec(NonNumeric, 0, FALSE)

get_domestic_index(trenv, name, q) ==
  IF ~trenv \/ q = "none"
    THEN IndexRec(SamplePrice[name], SampleChange[name], TRUE)
    ELSE CASE q = "real" -> IndexRec(RealPrice, RealChange, FALSE)
           [] q = "zero" -> IndexRec(0, 0, FALSE)
           [] q = "bad"  -> IndexRec(NonNumeric, 0, FALSE)

get_overseas_index(name) ==
  IndexRec(SamplePrice[name], SampleChange[name], TRUE)

\* The five records in the order get_market_data reads them.
KisOrder == <<"KOSPI", "KOSDAQ", "S&P500", "NASDAQ", "DOW">>

KisRecord(trenv, qs, i) ==
  IF i = 1 THEN get_domestic_index(trenv, "KOSPI", qs[1])
  ELSE IF i = 2 THEN get_domestic_index(trenv, "KOSDAQ", qs[2])
  ELSE get_overseas_index(KisOrder[i])

\* The number of records converted before float() raises (the except clause
\* keeps what was collected so far and skips the rest).
KisCollected(trenv, qs) ==
  LET bad == {i \in 1..5 : KisRecord(trenv, qs, i).price = NonNumeric}
  IN IF bad = {} THEN 5
     ELSE (CHOOSE i \in bad : \A j \in bad : i <= j) - 1

\* Hours and jitter draws of the generators (random.uniform(-a, a) is
\* u * a for u in Jitters).
Jitters == {-1, 0, 1}

\* round(x / d) to the nearest integer.
RoundDiv(x, d) == (x + d \div 2) \div d

\* x / d rounded to the nearest integer, ties to the even one, as the
\* "f" format rounds.
RoundHalfEven(x, d) ==
  LET q == x \div d
      r == x % d
  IN IF 2 * r > d \/ (2 * r = d /\ q % 2 = 1) THEN q + 1 ELSE q

\* round(base * multiplier, 2) for a base in hundredths and a multiplier in
\* 1/10000, computed as base + base * (multiplier - 1) to stay in 32 bits.
Scale(base, mult) == base + RoundDiv(base * (mult - 10000), 10000)

\* base_multiplier of _get_realistic_dummy_data and _get_backup_data, in
\* 1/10000: 1.0, 1 +- 2%, 1 +- 1%, 1 +- 0.5%.
DummyMultiplier(hour, u) ==
  IF 7 <= hour /\ hour <= 9 THEN 10000
  ELSE IF 10 <= hour /\ hour <= 15 THEN 10000 + u * 200
  ELSE IF 16 <= hour /\ hour <= 18 THEN 10000 + u * 100
  ELSE 10000 + u * 50

DummyBase ==
  [n \in IndexNames |->
     CASE n = "KOSPI"  -> 322768
       [] n = "KOSDAQ" -> 80581
       [] n = "S&P500" -> 550012
       [] n = "NASDAQ" -> 1790045
       [] n = "DOW"    -> 3850000]

\* Amplitude of random.uniform(-a, a) for the change of each index.
ChangeAmplitude ==
  [n \in IndexNames |->
     CASE n = "KOSPI"  -> 5000
       [] n = "KOSDAQ" -> 2000
       [] n = "S&P500" -> 10000
       [] n = "NASDAQ" -> 30000
       [] n = "DOW"    -> 20000]

_get_realistic_dummy_data(hour, u, cu) ==
  Snap([n \in IndexNames |-> Scale(DummyBase[n], DummyMultiplier(hour, u))],
       [n \in IndexNames |-> cu * ChangeAmplitude[n]],
       "realistic_dummy", IndexNames)

\* KISAPIClient.get_market_data: trenv is whether authentication succeeded,
\* qs the outcomes of the two remote queries, hour/u/cu the draws of the
\* dummy generator.
KisGetMarketData(trenv, qs, hour, u, cu) ==
  LET k      == KisCollected(trenv, qs)
      names  == {KisOrder[i] : i \in 1..k}
      idx(n) == CHOOSE i \in 1..5 : KisOrder[i] = n
      ind    == [n \in names |-> KisRecord(trenv, qs, idx(n)).price]
      chg    == [n \in names |-> KisRecord(trenv, qs, idx(n)).change]
      gen    == {n \in names : KisRecord(trenv, qs, idx(n)).sample}
      zero_count == Cardinality({n \in names : ind[n] = 0})
      dummy  == _get_realistic_dummy_data(hour, u, cu)
      upd    == {n \in IndexNames : dummy.indices[n] > 0}
  IN IF zero_count >= 3
       THEN Snap(Update(ind, [n \in upd |-> dummy.indices[n]]),
                 Update(chg, [n \in upd |-> dummy.changes[n]]),
                 "realistic_dummy_data", (gen \ upd) \cup upd)
       ELSE Snap(ind, chg, "kis_api", gen)

-----------------------------------------------------------------------------
(* MarketDataStorage: one file per (date, data_type); dates are day numbers. *)

DataTypes == {"closing", "midday"}

Days == 0..MaxDay

\* json.dump of a snapshot: a JSON object is the set of its members; the
\* text is complete when the dump ran to its end.
json_dump(md) ==
  [complete |-> TRUE,
   indices  |-> {<<n, md.indices[n]>> : n \in DOMAIN md.indices},
   changes  |-> {<<n, md.changes[n]>> : n \in DOMAIN md.changes},
   source   |-> md.source,
   generated |-> md.generated]

\* The file after open(filepath, 'w') when the dump raised before its end.
TruncatedText ==
  [complete |-> FALSE, indices |-> {}, changes |-> {}, source |-> "",
   generated |-> {}]

JsonObject(members) ==
  [n \in {m[1] : m \in members} |-> (CHOOSE m \in members : m[1] = n)[2]]

\* json.load keeping only the indices object.
json_load_indices_only(text) ==
  IF ~text.complete THEN [raised |-> TRUE, data |-> NoneVal]
  ELSE [raised |-> FALSE,
        data |-> Snap(JsonObject(text.indices), EmptyMap,
                      text.source, text.generated)]

\* json.load followed by data.get("market_data"); raises on a truncated text.
json_load(text) ==
  IF ~text.complete THEN [raised |-> TRUE, data |-> NoneVal]
  ELSE [raised |-> FALSE,
        data |-> Snap(JsonObject(text.indices), JsonObject(text.changes),
                      text.source, text.generated)]

\* One file: its key, its st_mtime (the day it was written), its text, and
\* market_data, the snapshot of the last save of this key that returned true
\* (None when there is none).
FileRec(d, t, md, text) ==
  [date |-> d, data_type |-> t, market_data |-> md, mtime |-> d, text |-> text]

\* How a save can fail: open() raises (nothing is written), or json.dump
\* raises after open() has truncated the file.
OpenFailures == {"none", "open"}

SaveFailures == {"none", "open", "dump"}

\* save_market_data: writes (overwrites) the file of (today, data_type);
\* every exception gives False.
save_market_data(st, day, market_data, data_type, failure) ==
  LET key == <<day, data_type>>
      previous == IF key \in DOMAIN st THEN st[key].market_data ELSE NoneVal
  IN IF failure = "open"
       THEN [ok |-> FALSE, store |-> st]
     ELSE [ok |-> failure = "none",
           store |-> [k \in (DOMAIN st) \cup {key} |->
                        IF k # key THEN st[k]
                        ELSE IF failure = "none"
                          THEN FileRec(day, data_type, market_data,
                                       json_dump(market_data))
                          ELSE FileRec(day, data_type, previous, TruncatedText)]]

\* load_market_data: None when the file does not exist or json.load raises.
load_market_data(st, target_date, data_type) ==
  IF <<target_date, data_type>> \notin DOMAIN st THEN NoneVal
  ELSE json_load(st[<<target_date, data_type>>].text).data

\* get_latest_market_data with min in place of max.
get_latest_market_data_oldest(st, data_type) ==
  LET files == {k \in DOMAIN st : k[2] = data_type}
  IN IF files = {} THEN NoneVal
     ELSE LET latest_file == CHOOSE k \in files :
                               \A j \in files : st[k].mtime <= st[j].mtime
          IN json_load(st[latest_file].text).data

\* get_latest_market_data globbing every file whatever its type.
get_latest_market_data_any_type(st, data_type) ==
  LET files == DOMAIN st
  IN IF files = {} THEN NoneVal
     ELSE LET latest_file == CHOOSE k \in files :
                               \A j \in files : st[j].mtime <= st[k].mtime
          IN json_load(st[latest_file].text).data

\* get_latest_market_data: the file of that type with the largest st_mtime;
\* None when there is none or json.load raises.
get_latest_market_data(st, data_type) ==
  LET files == {k \in DOMAIN st : k[2] = data_type}
  IN IF files = {} THEN NoneVal
     ELSE LET latest_file == CHOOSE k \in files :
                               \A j \in files : st[j].mtime <= st[k].mtime
          IN json_load(st[latest_file].text).data

\* cleanup_old_data: unlinks every file dated before today - days_to_keep
\* and returns their number; when an unlink raises (unlink_fails), the files
\* unlinked before it (deleted_before_failure, a proper subset of the old
\* files) stay deleted and 0 is returned.
cleanup_old_data(st, day, days_to_keep, unlink_fails, deleted_before_failure) ==
  LET cutoff_date == day - days_to_keep
      old == {k \in DOMAIN st : k[1] < cutoff_date}
      gone == IF unlink_fails THEN deleted_before_failure ELSE old
  IN [store |-> [k \in (DOMAIN st) \ gone |-> st[k]],
      deleted_count |-> IF unlink_fails THEN 0 ELSE Cardinality(old)]

-----------------------------------------------------------------------------
(* MarketDataStrategy *)

TimeSlots == {"07:00", "08:00", "12:00", "15:40", "19:00"}

\* The slots a caller may pass: the five supported ones and "now", the
\* sixth key of AutoBriefingSystem.time_topics, which no table maps.
SlotInputs == TimeSlots \cup {"now"}

data_type_mapping(time_slot) ==
  IF time_slot = "12:00" THEN "midday" ELSE "closing"

\* _get_stored_data_for_timeslot looking up today's record only.
_get_stored_data_for_timeslot_same_day(st, day, time_slot) ==
  load_market_data(st, day, data_type_mapping(time_slot))

\* _get_stored_data_for_timeslot: today's record, else yesterday's, else the
\* one of the data type written last.
_get_stored_data_for_timeslot(st, day, time_slot) ==
  LET data_type      == data_type_mapping(time_slot)
      today_data     == load_market_data(st, day, data_type)
      yesterday_data == load_market_data(st, day - 1, data_type)
      latest_data    == get_latest_market_data(st, data_type)
  IN IF Truthy(today_data) THEN today_data
     ELSE IF Truthy(yesterday_data) THEN yesterday_data
     ELSE latest_data

\* AnyPositive with >= 0 in place of > 0.
RECURSIVE AnyNonNegative(_, _)
AnyNonNegative(indices, order) ==
  IF order = <<>> THEN "False"
  ELSE LET i == Head(order)
       IN IF i \notin DOMAIN indices THEN AnyNonNegative(indices, Tail(order))
          ELSE IF indices[i] = NonNumeric THEN "TypeError"
          ELSE IF indices[i] >= 0 THEN "True"
          ELSE AnyNonNegative(indices, Tail(order))

\* any(indices.get(i, 0) > 0 for i in order if i in indices): "True",
\* "False", or "TypeError" when a non-numeric value is compared before a
\* positive one is found.
RECURSIVE AnyPositive(_, _)
AnyPositive(indices, order) ==
  IF order = <<>> THEN "False"
  ELSE LET i == Head(order)
       IN IF i \notin DOMAIN indices THEN AnyPositive(indices, Tail(order))
          ELSE IF indices[i] = NonNumeric THEN "TypeError"
          ELSE IF indices[i] > 0 THEN "True"
          ELSE AnyPositive(indices, Tail(order))

overseas_indices == <<"S&P500", "NASDAQ", "DOW">>

domestic_indices == <<"KOSPI", "KOSDAQ">>

\* _is_valid_realtime_data: both any() are evaluated before the "or".
_is_valid_realtime_data(data) ==
  IF ~Truthy(data) THEN "False"
  ELSE IF DOMAIN data.indices = {} THEN "False"
  ELSE LET overseas_valid == AnyPositive(data.indices, overseas_indices)
           domestic_valid == AnyPositive(data.indices, domestic_indices)
       IN IF overseas_valid = "TypeError" \/ domestic_valid = "TypeError"
            THEN "TypeError"
          ELSE IF overseas_valid = "True" \/ domestic_valid = "True"
            THEN "True"
          ELSE "False"

\* _get_backup_data: the table entry of the slot ("07:00" for a slot the
\* table does not have), tagged backup_data_<time_slot>.
BackupDomestic(time_slot) ==
  CASE time_slot = "12:00" -> [price |-> <<323000, 80800>>, change |-> <<3200, 450>>]
    [] time_slot = "15:40" -> [price |-> <<322500, 80400>>, change |-> <<2700, 50>>]
    [] OTHER               -> [price |-> <<322768, 80581>>, change |-> <<2954, 232>>]

\* _get_backup_data tagged "backup_data" whatever the slot.
_get_backup_data_plain_tag(time_slot) ==
  LET d == BackupDomestic(time_slot)
  IN Snap([n \in IndexNames |->
             CASE n = "KOSPI"  -> d.price[1]
               [] n = "KOSDAQ" -> d.price[2]
               [] OTHER        -> SamplePrice[n]],
          [n \in IndexNames |->
             CASE n = "KOSPI"  -> d.change[1]
               [] n = "KOSDAQ" -> d.change[2]
               [] OTHER        -> SampleChange[n]],
          "backup_data", IndexNames)

_get_backup_data(time_slot) ==
  LET d == BackupDomestic(time_slot)
  IN Snap([n \in IndexNames |->
             CASE n = "KOSPI"  -> d.price[1]
               [] n = "KOSDAQ" -> d.price[2]
               [] OTHER        -> SamplePrice[n]],
          [n \in IndexNames |->
             CASE n = "KOSPI"  -> d.change[1]
               [] n = "KOSDAQ" -> d.change[2]
               [] OTHER        -> SampleChange[n]],
          "backup_data_" \o time_slot, IndexNames)

\* What self.kis_client.get_market_data() can do in one call: return the
\* map KISAPIClient builds, raise, or (a substituted adapter) return a map
\* holding a non-numeric index value.
Hours == {3, 8, 12, 17, 23}

KisOutputs ==
  {KisGetMarketData(trenv, qs, 12, 0, 1) : trenv \in BOOLEAN, qs \in LivePairs}

StubbedOutputs ==
  { Snap([n \in {"S&P500"} |-> NonNumeric], [n \in {"S&P500"} |-> 0], "stub", {}) }

AdapterBehaviours ==
  {[raises |-> FALSE, data |-> d] : d \in KisOutputs \cup StubbedOutputs}
    \cup {[raises |-> TRUE, data |-> EmptyDict]}

\* _get_realtime_data: {} when the adapter raises.
_get_realtime_data(beh) == IF beh.raises THEN EmptyDict ELSE beh.data

\* get_market_data_with_strategy trying the live tier before the stored one.
get_market_data_with_strategy_live_first(st, day, time_slot, beh) ==
  LET stored_data   == _get_stored_data_for_timeslot(st, day, time_slot)
      realtime_data == _get_realtime_data(beh)
      valid         == _is_valid_realtime_data(realtime_data)
  IN IF valid = "TypeError"
       THEN [ret |-> NoneVal, raised |-> TRUE, tier |-> "none", kis_calls |-> 1]
     ELSE IF valid = "True"
       THEN [ret |-> realtime_data, raised |-> FALSE, tier |-> "live", kis_calls |-> 1]
     ELSE IF Truthy(stored_data)
       THEN [ret |-> stored_data, raised |-> FALSE, tier |-> "stored", kis_calls |-> 1]
     ELSE [ret |-> _get_backup_data(time_slot), raised |-> FALSE,
           tier |-> "backup", kis_calls |-> 1]

\* get_market_data_with_strategy returning a stored record only when it
\* passes the strict rule.
get_market_data_with_strategy_strict(st, day, time_slot, beh) ==
  LET stored_data   == _get_stored_data_for_timeslot(st, day, time_slot)
      realtime_data == _get_realtime_data(beh)
      valid         == _is_valid_realtime_data(realtime_data)
  IN IF Truthy(stored_data) /\ Strict(stored_data)
       THEN [ret |-> stored_data, raised |-> FALSE, tier |-> "stored", kis_calls |-> 0]
     ELSE IF valid = "TypeError"
       THEN [ret |-> NoneVal, raised |-> TRUE, tier |-> "none", kis_calls |-> 1]
     ELSE IF valid = "True"
       THEN [ret |-> realtime_data, raised |-> FALSE, tier |-> "live", kis_calls |-> 1]
     ELSE [ret |-> _get_backup_data(time_slot), raised |-> FALSE,
           tier |-> "backup", kis_calls |-> 1]

\* get_market_data_with_strategy: the value returned (or raised is TRUE),
\* the return statement reached, and the number of adapter calls made.
get_market_data_with_strategy(st, day, time_slot, beh) ==
  LET stored_data   == _get_stored_data_for_timeslot(st, day, time_slot)
      realtime_data == _get_realtime_data(beh)
      valid         == _is_valid_realtime_data(realtime_data)
  IN IF Truthy(stored_data)
       THEN [ret |-> stored_data, raised |-> FALSE, tier |-> "stored", kis_calls |-> 0]
     ELSE IF valid = "TypeError"
       THEN [ret |-> NoneVal, raised |-> TRUE, tier |-> "none", kis_calls |-> 1]
     ELSE IF valid = "True"
       THEN [ret |-> realtime_data, raised |-> FALSE, tier |-> "live", kis_calls |-> 1]
     ELSE [ret |-> _get_backup_data(time_slot), raised |-> FALSE,
           tier |-> "backup", kis_calls |-> 1]

\* MarketDataStrategy.collect_and_store_closing_data: every exception is
\* caught and gives False.
collect_and_store_closing_data(st, day, beh, failure) ==
  LET market_data == _get_realtime_data(beh)
      valid       == _is_valid_realtime_data(market_data)
  IN IF valid = "True"
       THEN save_market_data(st, day, market_data, "closing", failure)
       ELSE [ok |-> FALSE, store |-> st]

-----------------------------------------------------------------------------
(* MarketCrawlerStrategy validator *)

\* _is_valid_crawled_data: order is the insertion order of the indices dict,
\* in which "for price in indices.values()" visits the prices.
RECURSIVE AllPositive(_, _)
AllPositive(indices, order) ==
  IF order = <<>> THEN "True"
  ELSE IF indices[Head(order)] = NonNumeric THEN "TypeError"
  ELSE IF indices[Head(order)] <= 0 THEN "False"
  ELSE AllPositive(indices, Tail(order))

\* _is_valid_crawled_data without the "len(indices) < 2" check.
_is_valid_crawled_data_no_count(data, order) ==
  IF ~Truthy(data) THEN "False"
  ELSE IF DOMAIN data.indices = {} THEN "False"
  ELSE AllPositive(data.indices, order)

_is_valid_crawled_data(data, order) ==
  IF ~Truthy(data) THEN "False"
  ELSE IF DOMAIN data.indices = {} THEN "False"
  ELSE IF Cardinality(DOMAIN data.indices) < 2 THEN "False"
  ELSE AllPositive(data.indices, order)

-----------------------------------------------------------------------------
(* YahooFinanceCrawler, YahooFinanceClient *)

OverseasNames == {"S&P500", "NASDAQ", "DOW"}

DomesticNames == {"KOSPI", "KOSDAQ"}

\* base_data of the 2025 generators (YahooFinanceCrawler and the two backup
\* generators of MarketCrawlerStrategy).
BaseData2025 ==
  [n \in IndexNames |->
     CASE n = "KOSPI"  -> 340000
       [] n = "KOSDAQ" -> 85000
       [] n = "S&P500" -> 580000
       [] n = "NASDAQ" -> 1950000
       [] n = "DOW"    -> 4200000]

\* base_multiplier of get_overseas_market_data in 1/10000: 1 +- 3% in the US
\* session (22h..5h), 1 +- 1% otherwise.
YahooMultiplier(hour, u) ==
  IF 22 <= hour \/ hour <= 5 THEN 10000 + u * 300 ELSE 10000 + u * 100

\* YahooFinanceCrawler.get_overseas_market_data: always generated.
get_overseas_market_data(hour, u, cu) ==
  Snap([n \in OverseasNames |->
          Scale(BaseData2025[n], YahooMultiplier(hour, u))],
       [n \in OverseasNames |-> cu * ChangeAmplitude[n]],
       "realistic_backup", OverseasNames)

\* Prices YahooFinanceClient reads from regularMarketPrice, and the change
\* it computes from previousClose.
FetchedPrice ==
  [n \in OverseasNames |->
     CASE n = "S&P500" -> 551234
       [] n = "NASDAQ" -> 1801234
       [] n = "DOW"    -> 3861234]

FetchedChange == [n \in OverseasNames |-> 1234]

\* YahooFinanceClient.get_overseas_market_data: the indices whose ticker
\* answered (got), tagged yfinance_api.
YahooClientGetOverseas(got) ==
  Snap([n \in got |-> FetchedPrice[n]], [n \in got |-> FetchedChange[n]],
       "yfinance_api", {})

\* A substituted overseas adapter whose map also has a domestic index name.
OverlapOverseas ==
  Snap([n \in {"KOSPI", "S&P500"} |-> IF n = "KOSPI" THEN 111100 ELSE 551234],
       [n \in {"KOSPI", "S&P500"} |-> IF n = "KOSPI" THEN -7700 ELSE 1234],
       "stub", {})

-----------------------------------------------------------------------------
(* MarketCrawlerStrategy *)

\* base_multiplier of _get_domestic_backup_data: 1 +- 2% from 9h to 15h,
\* 1 +- 1% otherwise.
DomesticBackupMultiplier(hour, u) ==
  IF 9 <= hour /\ hour <= 15 THEN 10000 + u * 200 ELSE 10000 + u * 100

_get_domestic_backup_data(hour, u, cu) ==
  Snap([n \in DomesticNames |->
          Scale(BaseData2025[n], DomesticBackupMultiplier(hour, u))],
       [n \in DomesticNames |-> cu * ChangeAmplitude[n]],
       "domestic_backup", DomesticNames)

\* MarketCrawlerStrategy._get_backup_data (the time slot is only logged).
CrawlerGetBackupData(hour, u, cu) ==
  Snap([n \in IndexNames |->
          Scale(BaseData2025[n], DummyMultiplier(hour, u))],
       [n \in IndexNames |-> cu * ChangeAmplitude[n]],
       "backup_data", IndexNames)

\* The domestic indices of a brokerage answer with a price > 0, in the order
\* KOSPI, KOSDAQ; "TypeError" when a non-numeric price is compared with 0.
DomesticPositive(kis_data) ==
  LET have == DomesticNames \cap DOMAIN kis_data.indices
  IN IF \E n \in have : kis_data.indices[n] = NonNumeric
       THEN [raised |-> TRUE, names |-> {}]
       ELSE [raised |-> FALSE, names |-> {n \in have : kis_data.indices[n] > 0}]

\* _get_domestic_data: the positive domestic indices of the brokerage
\* answer; the domestic backup when there is none or anything raised.
_get_domestic_data(beh, hour, u, cu) ==
  IF beh.raises THEN _get_domestic_backup_data(hour, u, cu)
  ELSE LET d == DomesticPositive(beh.data)
       IN IF d.raised \/ d.names = {}
            THEN _get_domestic_backup_data(hour, u, cu)
            ELSE Snap([n \in d.names |-> beh.data.indices[n]],
                      [n \in d.names |-> IF n \in DOMAIN beh.data.changes
                                           THEN beh.data.changes[n] ELSE 0],
                      "kis_api", d.names \cap beh.data.generated)

\* _get_overseas_data: None when the overseas adapter raises.
_get_overseas_data(ov) == IF ov.raises THEN NoneVal ELSE ov.data

\* The keys of a merged map in the order the two updates inserted them.
MergedOrder(ind) ==
  SelectSeq(<<"S&P500", "NASDAQ", "DOW", "KOSPI", "KOSDAQ">>,
            LAMBDA n : n \in DOMAIN ind)

\* get_market_data_with_crawling with the two updates in the other order.
get_market_data_with_crawling_domestic_first(ov, beh, hour, u, cu) ==
  LET overseas_data == _get_overseas_data(ov)
      domestic_data == _get_domestic_data(beh, hour, u, cu)
      ind0 == IF Truthy(domestic_data) THEN domestic_data.indices ELSE EmptyMap
      chg0 == IF Truthy(domestic_data) THEN domestic_data.changes ELSE EmptyMap
      gen0 == IF Truthy(domestic_data) THEN domestic_data.generated ELSE {}
      ind1 == IF Truthy(overseas_data) THEN Update(ind0, overseas_data.indices) ELSE ind0
      chg1 == IF Truthy(overseas_data) THEN Update(chg0, overseas_data.changes) ELSE chg0
      gen1 == IF Truthy(overseas_data)
                THEN (gen0 \ DOMAIN overseas_data.indices) \cup overseas_data.generated
                ELSE gen0
      merged == Snap(ind1, chg1, "mixed", gen1)
      valid  == _is_valid_crawled_data(merged, MergedOrder(ind1))
      backup == CrawlerGetBackupData(hour, u, cu)
  IN [overseas |-> overseas_data, domestic |-> domestic_data, merged |-> merged,
      ret |-> IF valid = "True" THEN [merged EXCEPT !.source = "mixed_success"]
              ELSE IF valid = "False" THEN backup
              ELSE [backup EXCEPT !.source = "mixed_error_backup"],
      validated |-> valid]

\* get_market_data_with_crawling: overseas_data and domestic_data are the
\* two partial results, merged is market_data after the two updates, ret the
\* value returned (the backup map when merged fails the crawled validator).
get_market_data_with_crawling(ov, beh, hour, u, cu) ==
  LET overseas_data == _get_overseas_data(ov)
      domestic_data == _get_domestic_data(beh, hour, u, cu)
      ind0 == IF Truthy(overseas_data) THEN overseas_data.indices ELSE EmptyMap
      chg0 == IF Truthy(overseas_data) THEN overseas_data.changes ELSE EmptyMap
      gen0 == IF Truthy(overseas_data) THEN overseas_data.generated ELSE {}
      ind1 == IF Truthy(domestic_data) THEN Update(ind0, domestic_data.indices) ELSE ind0
      chg1 == IF Truthy(domestic_data) THEN Update(chg0, domestic_data.changes) ELSE chg0
      gen1 == IF Truthy(domestic_data)
                THEN (gen0 \ DOMAIN domestic_data.indices) \cup domestic_data.generated
                ELSE gen0
      merged == Snap(ind1, chg1, "mixed", gen1)
      valid  == _is_valid_crawled_data(merged, MergedOrder(ind1))
      backup == CrawlerGetBackupData(hour, u, cu)
  IN [overseas |-> overseas_data, domestic |-> domestic_data, merged |-> merged,
      ret |-> IF valid = "True" THEN [merged EXCEPT !.source = "mixed_success"]
              ELSE IF valid = "False" THEN backup
              ELSE [backup EXCEPT !.source = "mixed_error_backup"],
      validated |-> valid]

-----------------------------------------------------------------------------
(* RealTimeMarketData *)

\* _get_overseas_real_time: None when the client raises or has no index.
_get_overseas_real_time(ov) ==
  IF ov.raises THEN NoneVal
  ELSE IF DOMAIN ov.data.indices = {} THEN NoneVal
  ELSE ov.data

\* _get_domestic_real_time: the positive domestic indices of the brokerage
\* answer, None when there is none or anything raised.
_get_domestic_real_time(beh) ==
  IF beh.raises THEN NoneVal
  ELSE LET d == DomesticPositive(beh.data)
       IN IF d.raised \/ d.names = {} THEN NoneVal
          ELSE Snap([n \in d.names |-> beh.data.indices[n]],
                    [n \in d.names |-> IF n \in DOMAIN beh.data.changes
                                         THEN beh.data.changes[n] ELSE 0],
                    "", d.names \cap beh.data.generated)

get_real_time_data(ov, beh) ==
  LET overseas_data == _get_overseas_real_time(ov)
      domestic_data == _get_domestic_real_time(beh)
      ind0 == IF Truthy(overseas_data) THEN overseas_data.indices ELSE EmptyMap
      chg0 == IF Truthy(overseas_data) THEN overseas_data.changes ELSE EmptyMap
      gen0 == IF Truthy(overseas_data) THEN overseas_data.generated ELSE {}
      ind1 == IF Truthy(domestic_data) THEN Update(ind0, domestic_data.indices) ELSE ind0
      chg1 == IF Truthy(domestic_data) THEN Update(chg0, domestic_data.changes) ELSE chg0
      gen1 == IF Truthy(domestic_data)
                THEN (gen0 \ DOMAIN domestic_data.indices) \cup domestic_data.generated
                ELSE gen0
      merged == Snap(ind1, chg1, "real_time", gen1)
  IN [overseas |-> overseas_data, domestic |-> domestic_data, merged |-> merged,
      ret |-> merged, validated |-> ""]

-----------------------------------------------------------------------------
(* Price bands *)

\* _is_valid_price of NaverFinanceCrawler (KOSPI, KOSDAQ) and of
\* YahooFinanceCrawler (S&P500, NASDAQ, DOW): the band of each index, in
\* hundredths.
BandLow ==
  [n \in IndexNames |->
     CASE n = "KOSPI"  -> 100000
       [] n = "KOSDAQ" -> 50000
       [] n = "S&P500" -> 400000
       [] n = "NASDAQ" -> 1200000
       [] n = "DOW"    -> 3000000]

BandHigh ==
  [n \in IndexNames |->
     CASE n = "KOSPI"  -> 500000
       [] n = "KOSDAQ" -> 120000
       [] n = "S&P500" -> 600000
       [] n = "NASDAQ" -> 2000000
       [] n = "DOW"    -> 4500000]

_is_valid_price(price, index_name) ==
  IF index_name \in IndexNames
    THEN BandLow[index_name] <= price /\ price <= BandHigh[index_name]
    ELSE TRUE

-----------------------------------------------------------------------------
(* NaverFinanceCrawler *)

\* What one label pattern finds in the page text: NoMatch, or the number it
\* captured (a captured group always parses, to a number >= 0).
NoMatch == -1

\* First match in the order of patterns that is in band stops the loop;
\* otherwise price is the number the last matching pattern captured, and
\* None (NoMatch) only when no pattern matched.
RECURSIVE ExtractPrice(_, _, _)
ExtractPrice(matches, index_name, price) ==
  IF matches = <<>> THEN price
  ELSE IF Head(matches) = NoMatch
    THEN ExtractPrice(Tail(matches), index_name, price)
  ELSE IF Head(matches) # 0 /\ _is_valid_price(Head(matches), index_name)
    THEN Head(matches)
  ELSE ExtractPrice(Tail(matches), index_name, Head(matches))

\* _extract_index_from_main: None (found FALSE) when price is None, else the
\* price and a change found near it (none when the price is 0).
_extract_index_from_main(matches, index_name, change) ==
  LET price == ExtractPrice(matches, index_name, NoMatch)
  IN IF price = NoMatch THEN [found |-> FALSE, price |-> 0, change |-> 0]
     ELSE [found |-> TRUE, price |-> price,
           change |-> IF price > 0 THEN change ELSE 0]

\* get_domestic_market_data: page gives the matches of the three patterns of
\* each index; a failed page request gives the error map.
get_domestic_market_data(fetch_fails, page, change) ==
  IF fetch_fails THEN Snap(EmptyMap, EmptyMap, "naver_finance_error", {})
  ELSE LET data(n) == _extract_index_from_main(page[n], n, change)
           names   == {n \in DomesticNames : data(n).found}
       IN Snap([n \in names |-> data(n).price],
               [n \in names |-> data(n).change], "naver_finance", {})

-----------------------------------------------------------------------------
(* MarketBriefingGenerator *)

\* The Korean text of the templates is written in English: a label or a
\* hashtag stands for the fixed string of the source at the same place.
\* A line of main_content is [label, index, shows_price, price, change_pct]:
\* index is the index name the line is about ("" for a line about none),
\* price is the number printed, in hundredths ("{:,.2f}"; "{:,.0f}" for
\* DOW rounds to units), change_pct is in tenths of a percent, as "{:+.1f}"
\* prints it.

\* AutoBriefingSystem.time_topics; .get(time_slot, default) for other keys.
time_topics(time_slot) ==
  CASE time_slot = "07:00" -> "US market close summary"
    [] time_slot = "08:00" -> "Korean market outlook for today"
    [] time_slot = "12:00" -> "Morning session summary"
    [] time_slot = "15:40" -> "Korean market close summary"
    [] time_slot = "19:00" -> "US pre-open check"
    [] time_slot = "now"   -> "Current market briefing"
    [] OTHER               -> "Market briefing"

\* change / price * 100, printed with "{:+.1f}": dividing a non-number
\* raises TypeError, dividing by 0 raises ZeroDivisionError.
Percent(change, price) ==
  IF change = NonNumeric \/ price = NonNumeric
    THEN [raised |-> "TypeError", pct |-> 0]
  ELSE IF price = 0 THEN [raised |-> "ZeroDivisionError", pct |-> 0]
  ELSE [raised |-> "none", pct |-> RoundHalfEven(change * 1000, price)]

\* change_pct without the "if indices[n] > 0 else 0" guard.
change_pct_unguarded(indices, changes, n) ==
  Percent(IF n \in DOMAIN changes THEN changes[n] ELSE 0, indices[n])

\* (changes.get(n, 0) / indices[n] * 100) if indices[n] > 0 else 0, for a
\* name of indices: the comparison is made first and raises TypeError on a
\* non-number.
change_pct(indices, changes, n) ==
  LET price  == indices[n]
      change == IF n \in DOMAIN changes THEN changes[n] ELSE 0
  IN IF price = NonNumeric THEN [raised |-> "TypeError", pct |-> 0]
     ELSE IF price > 0 THEN Percent(change, price)
     ELSE [raised |-> "none", pct |-> 0]

\* One "if name in indices:" block of the templates, for each <<name, label>>
\* of shown in turn.
IndexLines(data, shown) ==
  LET present == SelectSeq(shown, LAMBDA e : e[1] \in DOMAIN data.indices)
  IN [i \in 1..Len(present) |->
        LET c == change_pct(data.indices, data.changes, present[i][1])
        IN [label |-> present[i][2], index |-> present[i][1],
            shows_price |-> TRUE,
            price |-> IF present[i][1] = "DOW" /\ c.raised = "none"
                        THEN RoundHalfEven(data.indices["DOW"], 100) * 100
                        ELSE data.indices[present[i][1]],
            change_pct |-> c.pct, raised |-> c.raised]]

\* The 08:00 template's "if 'S&P500' in changes:" block:
\* (changes['S&P500'] / indices.get('S&P500', 1) * 100)
\*    if indices.get('S&P500', 0) > 0 else 0.
GlobalImpactLines(data) ==
  IF "S&P500" \notin DOMAIN data.changes THEN <<>>
  ELSE LET price == IF "S&P500" \in DOMAIN data.indices
                      THEN data.indices["S&P500"] ELSE 0
           c     == change_pct([n \in {"S&P500"} |-> price], data.changes, "S&P500")
       IN << [label |-> "US impact: S&P500", index |-> "S&P500",
              shows_price |-> FALSE, price |-> price,
              change_pct |-> c.pct, raised |-> c.raised] >>

\* The template's result: the first exception of its lines, or the
\* BriefingContent, whose main_content starts with the topic line.  No data source of the repository fills the stocks,
\* sectors, issues or events keys, so their blocks add no line and the
\* comments are the fixed ones.
BriefingContent(template, topic, lines, comments, hashtags) ==
  LET raising == {i \in 1..Len(lines) : lines[i].raised # "none"}
      heading == [label |-> topic, index |-> "", shows_price |-> FALSE,
                  price |-> 0, change_pct |-> 0, raised |-> "none"]
      first   == CHOOSE i \in raising : \A j \in raising : i <= j
  IN [raised       |-> IF raising = {} THEN "none" ELSE lines[first].raised,
      template     |-> template,
      main_content |-> IF raising = {} THEN <<heading>> \o lines ELSE <<>>,
      comments     |-> IF raising = {} THEN comments ELSE <<>>,
      hashtags     |-> IF raising = {} THEN hashtags ELSE <<>>]

_generate_us_market_close_briefing(topic, data) ==
  BriefingContent("us_market_close", topic,
    IndexLines(data, << <<"S&P500", "S&P500">>, <<"NASDAQ", "NASDAQ">>,
                        <<"DOW", "DOW">> >>),
    <<"Points to watch today", "volatility after the FOMC result",
      "sector performance diverges", "earnings releases awaited">>,
    <<"#USmarket", "#S&P500", "#NASDAQ", "#GlobalMarket">>)

_generate_kr_market_preview_briefing(topic, data) ==
  BriefingContent("kr_market_preview", topic,
    IndexLines(data, << <<"KOSPI", "previous KOSPI">>,
                        <<"KOSDAQ", "previous KOSDAQ">> >>)
      \o GlobalImpactLines(data),
    <<"Pre-open checklist", "global market trend", "economic indicator schedule",
      "sector points">>,
    <<"#KRmarket", "#KOSPI", "#KOSDAQ", "#TodaysMarket">>)

_generate_kr_market_midday_briefing(topic, data) ==
  BriefingContent("kr_market_midday", topic,
    IndexLines(data, << <<"KOSPI", "KOSPI">>, <<"KOSDAQ", "KOSDAQ">> >>)
      \o << [label |-> "foreign/institutional flows", index |-> "",
             shows_price |-> FALSE,
             price |-> 0, change_pct |-> 0, raised |-> "none"] >>,
    <<"Afternoon points to watch", "cause of the volatility",
      "foreign/institutional flows", "sector outlook">>,
    <<"#KRmarket", "#MorningSession", "#MarketStatus", "#InvestorTrend">>)

_generate_kr_market_close_briefing(topic, data) ==
  BriefingContent("kr_market_close", topic,
    IndexLines(data, << <<"KOSPI", "KOSPI">>, <<"KOSDAQ", "KOSDAQ">> >>),
    <<"Points to watch tomorrow", "companies due to report", "policy and events",
      "strategy review">>,
    <<"#KRmarket", "#Close", "#DailyMarket", "#InvestStrategy">>)

_generate_us_market_preview_briefing(topic, data) ==
  BriefingContent("us_market_preview", topic,
    IndexLines(data, << <<"S&P500", "S&P500 futures">>,
                        <<"NASDAQ", "NASDAQ futures">> >>),
    <<"Points to watch tonight", "economic indicators", "earnings schedule",
      "global events">>,
    <<"#USmarket", "#PreMarket", "#GlobalIssue", "#Earnings">>)

\* generate_briefing with "now" dispatched to the 19:00 template.
generate_briefing_now_as_preview(time_slot, topic, market_data) ==
  IF time_slot = "07:00" THEN _generate_us_market_close_briefing(topic, market_data)
  ELSE IF time_slot = "08:00" THEN _generate_kr_market_preview_briefing(topic, market_data)
  ELSE IF time_slot = "12:00" THEN _generate_kr_market_midday_briefing(topic, market_data)
  ELSE IF time_slot = "15:40" THEN _generate_kr_market_close_briefing(topic, market_data)
  ELSE IF time_slot \in {"19:00", "now"}
    THEN _generate_us_market_preview_briefing(topic, market_data)
  ELSE [raised |-> "ValueError", template |-> "none", main_content |-> <<>>,
        comments |-> <<>>, hashtags |-> <<>>]

\* generate_briefing: the time slot is tested before the data is read.
generate_briefing(time_slot, topic, market_data) ==
  IF time_slot = "07:00" THEN _generate_us_market_close_briefing(topic, market_data)
  ELSE IF time_slot = "08:00" THEN _generate_kr_market_preview_briefing(topic, market_data)
  ELSE IF time_slot = "12:00" THEN _generate_kr_market_midday_briefing(topic, market_data)
  ELSE IF time_slot = "15:40" THEN _generate_kr_market_close_briefing(topic, market_data)
  ELSE IF time_slot = "19:00" THEN _generate_us_market_preview_briefing(topic, market_data)
  ELSE [raised |-> "ValueError", template |-> "none", main_content |-> <<>>,
        comments |-> <<>>, hashtags |-> <<>>]

NoBriefing ==
  [raised |-> "none", template |-> "none", main_content |-> <<>>,
   comments |-> <<>>, hashtags |-> <<>>]

\* A text is the sequence of its lines.  A line of a text is of kind "main"
\* (line is the line of main_content), "comment" (words holds the comment),
\* "hashtags" (words are the hashtags, joined by spaces) or "blank".
NoLine ==
  [label |-> "", index |-> "", shows_price |-> FALSE, price |-> 0,
   change_pct |-> 0, raised |-> "none"]

TextLine(kind, line, words) == [kind |-> kind, line |-> line, words |-> words]

Blank == TextLine("blank", NoLine, <<>>)

\* No text (a call that produced none).
NoText == <<>>

\* format_for_threads with the hashtag line put first.
format_for_threads_hashtags_first(briefing) ==
  (IF briefing.hashtags # <<>>
     THEN <<TextLine("hashtags", NoLine, briefing.hashtags), Blank>> ELSE <<>>)
    \o [i \in 1..Len(briefing.main_content) |->
          TextLine("main", briefing.main_content[i], <<>>)]
    \o <<Blank>>
    \o [i \in 1..Len(briefing.comments) |->
          TextLine("comment", NoLine, <<briefing.comments[i]>>)]

\* format_for_threads: main_content + "\n\n", then each comment + "\n",
\* then (when there are hashtags) "\n" + " ".join(hashtags).
format_for_threads(briefing) ==
  [i \in 1..Len(briefing.main_content) |->
     TextLine("main", briefing.main_content[i], <<>>)]
    \o <<Blank>>
    \o [i \in 1..Len(briefing.comments) |->
          TextLine("comment", NoLine, <<briefing.comments[i]>>)]
    \o (IF briefing.hashtags # <<>>
          THEN <<Blank, TextLine("hashtags", NoLine, briefing.hashtags)>>
          ELSE <<>>)

-----------------------------------------------------------------------------
(* ThreadsAPIClient, ThreadsPublisher *)

\* threads_publisher is the ThreadsPublisher object: its client's two
\* settings (TRUE when the environment variable holds a non-empty string)
\* and its post_history list.
NoCredentials == [access_token |-> FALSE, user_id |-> FALSE]

Credentials == [access_token : BOOLEAN, user_id : BOOLEAN]

ThreadsPublisher(client) == [client |-> client, post_history |-> <<>>]

\* What one requests.post does: status 200 with a JSON object holding "id",
\* status 200 with a JSON object without it, another status, or an exception.
RemoteOutcomes == {"ok", "no_id", "non200", "raises"}

\* What the two requests of one post do; the second outcome matters only
\* when the first gave an id, and is "ok" otherwise.
RemoteBehaviours ==
  {r \in [container : RemoteOutcomes, publish : RemoteOutcomes] :
     r.container # "ok" => r.publish = "ok"}

NoneResponse == [none |-> TRUE, keys |-> {}, id |-> ""]

\* ResponseOf without the test of the status code: the body of a response
\* with another status is read as well.
ResponseOf_status_unchecked(outcome, id) ==
  CASE outcome \in {"ok", "non200"} -> [none |-> FALSE, keys |-> {"id"}, id |-> id]
    [] outcome = "no_id"             -> [none |-> FALSE, keys |-> {"error"}, id |-> ""]
    [] OTHER                         -> [none |-> TRUE, keys |-> {}, id |-> ""]

\* The try block of _create_media_container and _publish_container:
\* response.json() on status 200, None on another status or an exception.
ResponseOf(outcome, id) ==
  CASE outcome = "ok"    -> [none |-> FALSE, keys |-> {"id"}, id |-> id]
    [] outcome = "no_id" -> [none |-> FALSE, keys |-> {"error"}, id |-> ""]
    [] OTHER             -> NoneResponse

_create_media_container(content, outcome) ==
  [ret     |-> ResponseOf(outcome, "container_1"),
   request |-> [url |-> "create_container_url", text |-> content,
                creation_id |-> ""]]

\* _publish_container sending no creation_id.
_publish_container_without_id(container_id, outcome) ==
  [ret     |-> ResponseOf(outcome, "post_1"),
   request |-> [url |-> "publish_url", text |-> <<>>, creation_id |-> ""]]

_publish_container(container_id, outcome) ==
  [ret     |-> ResponseOf(outcome, "post_1"),
   request |-> [url |-> "publish_url", text |-> <<>>,
                creation_id |-> container_id]]

\* time.sleep(30) between the two requests, as an entry of the call's trace.
Wait == [url |-> "time.sleep", text |-> <<>>, creation_id |-> ""]

\* A post result: container_id is "" where the dict has no such key.
_simulate_post(content) ==
  [id |-> "simulated_post_id", success |-> TRUE, content |-> content,
   container_id |-> ""]

\* post_thread without the test of the two settings.
post_thread_always_remote(client, content, remote) ==
  LET c == _create_media_container(content, remote.container)
  IN IF c.ret.none \/ "id" \notin c.ret.keys
       THEN [result |-> _simulate_post(content), requests |-> <<c.request>>]
     ELSE LET container_id == c.ret.id
              p == _publish_container(container_id, remote.publish)
          IN IF p.ret.none \/ "id" \notin p.ret.keys
               THEN [result   |-> _simulate_post(content),
                     requests |-> <<c.request, Wait, p.request>>]
             ELSE [result   |-> [id |-> p.ret.id, success |-> TRUE,
                                 content |-> content,
                                 container_id |-> container_id],
                   requests |-> <<c.request, Wait, p.request>>]

\* post_thread: the result returned and the trace of the call (the requests
\* sent and the wait between them), in order.
post_thread(client, content, remote) ==
  IF ~client.access_token \/ ~client.user_id
    THEN [result |-> _simulate_post(content), requests |-> <<>>]
  ELSE LET c == _create_media_container(content, remote.container)
       IN IF c.ret.none \/ "id" \notin c.ret.keys
            THEN [result |-> _simulate_post(content), requests |-> <<c.request>>]
          ELSE LET container_id == c.ret.id
                   p == _publish_container(container_id, remote.publish)
               IN IF p.ret.none \/ "id" \notin p.ret.keys
                    THEN [result   |-> _simulate_post(content),
                          requests |-> <<c.request, Wait, p.request>>]
                  ELSE [result   |-> [id |-> p.ret.id, success |-> TRUE,
                                      content |-> content,
                                      container_id |-> container_id],
                        requests |-> <<c.request, Wait, p.request>>]

\* time_metadata.get(time_slot, default): the slot's prefix.
time_metadata(time_slot) ==
  IF time_slot \in {"07:00", "08:00", "12:00", "15:40", "19:00"}
    THEN "metadata " \o time_slot ELSE "metadata default"

\* post_briefing: the content is prefixed with the slot's metadata.
post_briefing(client, briefing_content, time_slot, remote) ==
  post_thread(client,
              [metadata |-> time_metadata(time_slot), text |-> briefing_content],
              remote)

\* publish_briefing keeping only the new record in post_history.
publish_briefing_overwriting(publisher, time_slot, topic, briefing_content, remote) ==
  LET r == post_briefing(publisher.client, briefing_content, time_slot, remote)
      post_record == [time_slot |-> time_slot, topic |-> topic,
                      content |-> briefing_content, result |-> r.result]
  IN [result    |-> r.result,
      publisher |-> [publisher EXCEPT !.post_history = <<post_record>>],
      requests  |-> r.requests]

\* publish_briefing: the result returned, the publisher afterwards and the
\* requests sent.  Nothing in its try block raises (post_thread catches
\* every exception), so the except branch is never taken.
publish_briefing(publisher, time_slot, topic, briefing_content, remote) ==
  LET r == post_briefing(publisher.client, briefing_content, time_slot, remote)
      post_record == [time_slot |-> time_slot, topic |-> topic,
                      content |-> briefing_content, result |-> r.result]
  IN [result    |-> r.result,
      publisher |-> [publisher EXCEPT
                       !.post_history = Append(publisher.post_history, post_record)],
      requests  |-> r.requests]

\* self.post_history[-1] if self.post_history else None: NoPost is None.
NoPost ==
  [time_slot |-> "", topic |-> "",
   content |-> NoText,
   result |-> [id |-> "", success |-> FALSE,
               content |-> [metadata |-> "", text |-> NoText],
               container_id |-> ""]]

\* get_post_stats: the loop adds 1 to the count of each record's time slot.
get_post_stats(publisher) ==
  LET h     == publisher.post_history
      slots == {h[i].time_slot : i \in 1..Len(h)}
  IN [total_posts     |-> Len(h),
      time_slot_stats |-> [t \in slots |->
                             Cardinality({i \in 1..Len(h) : h[i].time_slot = t})],
      last_post       |-> IF Len(h) > 0 THEN h[Len(h)] ELSE NoPost]

-----------------------------------------------------------------------------
(* AutoBriefingSystem *)

NoResult ==
  [id |-> "", success |-> FALSE,
   content |-> [metadata |-> "", text |-> NoText],
   container_id |-> ""]

\* datetime.time(h, m) as the second of the day.
time(h, m) == (h * 60 + m) * 60

\* The seconds of a day: datetime.now().time(), to the second.
TimesOfDay == 0..(24 * 60 * 60 - 1)

\* get_current_briefing_type with the Korean session closed at 15:30 sharp.
get_current_briefing_type_close_exclusive(current_time) ==
  LET korea_open  == time(9, 0)
      korea_close == time(15, 30)
      us_open     == time(22, 30)
      us_close    == time(5, 0)
  IN IF korea_open <= current_time /\ current_time < korea_close
       THEN IF current_time < time(12, 0) THEN "12:00" ELSE "15:40"
     ELSE IF current_time >= us_open \/ current_time <= us_close
       THEN IF current_time >= us_open THEN "19:00" ELSE "07:00"
     ELSE IF us_close <= current_time /\ current_time < korea_open
       THEN "08:00"
     ELSE "19:00"

\* get_current_briefing_type, for the time of day current_time.
get_current_briefing_type(current_time) ==
  LET korea_open  == time(9, 0)
      korea_close == time(15, 30)
      us_open     == time(22, 30)
      us_close    == time(5, 0)
  IN IF korea_open <= current_time /\ current_time <= korea_close
       THEN IF current_time < time(12, 0) THEN "12:00" ELSE "15:40"
     ELSE IF current_time >= us_open \/ current_time <= us_close
       THEN IF current_time >= us_open THEN "19:00" ELSE "07:00"
     ELSE IF us_close <= current_time /\ current_time < korea_open
       THEN "08:00"
     ELSE "19:00"

\* test_scheduling_logic.get_briefing_type_for_time, the tests' reference.
get_briefing_type_for_time(test_time) ==
  LET korea_open  == time(9, 0)
      korea_close == time(15, 30)
      us_open     == time(22, 30)
      us_close    == time(5, 0)
  IN IF korea_open <= test_time /\ test_time <= korea_close
       THEN IF test_time < time(12, 0) THEN "12:00" ELSE "15:40"
     ELSE IF test_time >= us_open \/ test_time <= us_close
       THEN IF test_time >= us_open THEN "19:00" ELSE "07:00"
     ELSE IF us_close <= test_time /\ test_time < korea_open
       THEN "08:00"
     ELSE "19:00"

\* The except branch of run_briefing: success False and the error; the
\* publisher is as it was.
RunFailed(publisher, time_slot, error, steps) ==
  [success |-> FALSE, time_slot |-> time_slot, error |-> error,
   topic |-> "", market_data |-> NoneVal,
   briefing_content |-> NoText,
   publish_result |-> NoResult, publisher |-> publisher, requests |-> <<>>,
   steps |-> steps]

\* run_briefing publishing the slot's topic line before it collects and
\* generates.
run_briefing_publish_first(st, day, publisher, time_slot, beh, remote) ==
  LET topic == time_topics(time_slot)
      p == publish_briefing(publisher, time_slot, topic,
                            <<TextLine("main", NoLine, topic)>>, remote)
      g == get_market_data_with_strategy(st, day, time_slot, beh)
      briefing == generate_briefing(time_slot, topic, g.ret)
  IN IF g.raised \/ ~Truthy(g.ret)
       THEN [RunFailed(p.publisher, time_slot, "Exception",
                       <<"publish", "collect">>)
               EXCEPT !.requests = p.requests]
     ELSE IF briefing.raised # "none"
       THEN [RunFailed(p.publisher, time_slot, briefing.raised,
                       <<"publish", "collect", "generate">>)
               EXCEPT !.requests = p.requests]
     ELSE [success |-> TRUE, time_slot |-> time_slot,
           error |-> "none", topic |-> topic, market_data |-> g.ret,
           briefing_content |-> format_for_threads(briefing),
           publish_result |-> p.result, publisher |-> p.publisher,
           requests |-> p.requests,
           steps |-> <<"publish", "collect", "generate">>]

\* run_briefing: the dict returned (error is "none" on success), the
\* publisher afterwards, the requests sent and the steps entered, in order.
run_briefing(st, day, publisher, time_slot, beh, remote) ==
  LET g == get_market_data_with_strategy(st, day, time_slot, beh)
  IN IF g.raised
       THEN RunFailed(publisher, time_slot, "TypeError", <<"collect">>)
     ELSE IF ~Truthy(g.ret)
       THEN RunFailed(publisher, time_slot, "Exception", <<"collect">>)
     ELSE LET topic    == time_topics(time_slot)
              briefing == generate_briefing(time_slot, topic, g.ret)
          IN IF briefing.raised # "none"
               THEN RunFailed(publisher, time_slot, briefing.raised,
                              <<"collect", "generate">>)
             ELSE LET formatted_content == format_for_threads(briefing)
                      p == publish_briefing(publisher, time_slot, topic,
                                            formatted_content, remote)
                  IN [success |-> TRUE, time_slot |-> time_slot,
                      error |-> "none", topic |-> topic, market_data |-> g.ret,
                      briefing_content |-> formatted_content,
                      publish_result |-> p.result, publisher |-> p.publisher,
                      requests |-> p.requests,
                      steps |-> <<"collect", "generate", "publish">>]

\* self.time_topics.keys(), in insertion order.
time_topics_keys == <<"07:00", "08:00", "12:00", "15:40", "19:00", "now">>

\* run_all_briefings: run_briefing for each key of time_topics in turn
\* (with a 2 s sleep after each), each run on the publisher the run before
\* left; results maps each key to the dict its run returned.  The adapter
\* and the two requests do the same thing in every run of the call.
RECURSIVE RunEach(_, _, _, _, _, _)
RunEach(keys, st, day, publisher, beh, remote) ==
  IF keys = <<>> THEN [results |-> <<>>, publisher |-> publisher]
  ELSE LET r    == run_briefing(st, day, publisher, Head(keys), beh, remote)
           rest == RunEach(Tail(keys), st, day, r.publisher, beh, remote)
       IN [results   |-> <<[time_slot |-> Head(keys), success |-> r.success,
                            error |-> r.error]>> \o rest.results,
           publisher |-> rest.publisher]

run_all_briefings(st, day, publisher, beh, remote) ==
  RunEach(time_topics_keys, st, day, publisher, beh, remote)

-----------------------------------------------------------------------------
(* The record of the last call: its operation and inputs, what it returned. *)

\* No call yet.  time_slot, trenv, qs, draw, order, ov (what the overseas
\* adapter does) and kis (what the brokerage adapter does) are inputs of
\* the call; overseas, domestic, merged are the partial results and the
\* merged map of a collecting call; target_date, days_to_keep and
\* deleted_count the arguments and the result of a store call; fetch_fails and page what the scraper's
\* page request gave; rt is the map the adapter gave the strategy (or the validators'
\* input); ret, raised, ok are what the call returned; tier the return
\* statement reached; kis_calls the adapter calls made; valid_realtime and
\* valid_crawled the validators' results; topic, remote (what the two
\* requests of a post do) are inputs of a briefing call, error the exception
\* it met ("none" when it met none), briefing, briefing_content and
\* publish_result what its steps gave, requests the requests sent and steps
\* the steps entered; stats is what get_post_stats returned; current_time
\* is the time of day of a slot selection, briefing_type the slot selected
\* and reference_type the slot the tests' reference gives; results is what
\* run_all_briefings returned, one entry per run in the order of the runs.
NoCall ==
  [op |-> "init", time_slot |-> "", trenv |-> FALSE,
   qs |-> <<"none", "none">>, draw |-> <<12, 0, 0>>, order |-> <<>>,
   rt |-> EmptyDict, ret |-> NoneVal, raised |-> FALSE, tier |-> "none",
   kis_calls |-> 0, ok |-> FALSE, valid_realtime |-> "", valid_crawled |-> "",
   ov |-> [raises |-> TRUE, data |-> EmptyDict],
   kis |-> [raises |-> TRUE, data |-> EmptyDict],
   overseas |-> NoneVal, domestic |-> NoneVal, merged |-> EmptyDict,
   target_date |-> 0, days_to_keep |-> 0, deleted_count |-> 0,
   fetch_fails |-> FALSE,
   page |-> [n \in DomesticNames |-> <<NoMatch, NoMatch, NoMatch>>],
   topic |-> "", error |-> "none", briefing |-> NoBriefing,
   briefing_content |-> NoText,
   remote |-> [container |-> "ok", publish |-> "ok"],
   publish_result |-> NoResult, requests |-> <<>>, steps |-> <<>>,
   stats |-> [total_posts |-> 0, time_slot_stats |-> EmptyMap,
              last_post |-> NoPost],
   current_time |-> 0, briefing_type |-> "", reference_type |-> "",
   results |-> <<>>]

\* storage main(): the snapshot saved by the module's own test run.
test_data ==
  Snap([n \in IndexNames |-> IF n = "KOSPI" THEN 322768
                             ELSE IF n = "KOSDAQ" THEN 80581 ELSE SamplePrice[n]],
       [n \in IndexNames |-> IF n = "KOSPI" THEN 2954
                             ELSE IF n = "KOSDAQ" THEN 232 ELSE SampleChange[n]],
       "kis_api_closing", {})

Init ==
  /\ store = EmptyMap
  /\ today = 0
  /\ threads_publisher = ThreadsPublisher(NoCredentials)
  /\ last = NoCall

\* The calendar day changes.
NextDay ==
  /\ today < MaxDay
  /\ today' = today + 1
  /\ UNCHANGED <<store, last, threads_publisher>>

GetMarketDataWithStrategy ==
  \E time_slot \in SlotInputs, beh \in AdapterBehaviours :
    LET r == get_market_data_with_strategy(store, today, time_slot, beh)
    IN /\ last' = [NoCall EXCEPT
                     !.op = "get_market_data_with_strategy",
                     !.time_slot = time_slot,
                     !.rt = IF r.kis_calls = 0 THEN EmptyDict
                                               ELSE _get_realtime_data(beh),
                     !.ret = r.ret, !.raised = r.raised, !.tier = r.tier,
                     !.kis_calls = r.kis_calls, !.ok = ~r.raised]
       /\ UNCHANGED <<store, today, threads_publisher>>

CollectAndStoreClosingData ==
  \E beh \in AdapterBehaviours, failure \in OpenFailures :
    LET r == collect_and_store_closing_data(store, today, beh, failure)
    IN /\ Cardinality(DOMAIN r.store) <= MaxFiles
       /\ store' = r.store
       /\ last' = [NoCall EXCEPT
                     !.op = "collect_and_store_closing_data",
                     !.rt = _get_realtime_data(beh),
                     !.kis_calls = 1, !.ok = r.ok]
       /\ UNCHANGED <<today, threads_publisher>>

\* A direct save_market_data call (storage main() saves test_data).
SaveMarketData ==
  \E data_type \in DataTypes, failure \in OpenFailures :
    LET r == save_market_data(store, today, test_data, data_type, failure)
    IN /\ Cardinality(DOMAIN r.store) <= MaxFiles
       /\ store' = r.store
       /\ last' = [NoCall EXCEPT
                     !.op = "save_market_data", !.time_slot = data_type,
                     !.rt = test_data, !.ok = r.ok]
       /\ UNCHANGED <<today, threads_publisher>>

Next ==
  \/ NextDay
  \/ GetMarketDataWithStrategy
  \/ CollectAndStoreClosingData
  \/ SaveMarketData

Spec == Init /\ [][Next]_vars

-----------------------------------------------------------------------------------------------------------------------------------------------------
(* The brokerage adapter on its own: the initial state draws the            *)
(* authentication state, the query outcomes and the generator's draws, and  *)
(* one step is the KISAPIClient.get_market_data call on them.               *)

InitKis ==
  /\ store = EmptyMap
  /\ today = 0
  /\ threads_publisher = ThreadsPublisher(NoCredentials)
  /\ \E trenv \in BOOLEAN, qs \in QueryPairs, h \in Hours, u \in Jitters :
       last = [NoCall EXCEPT !.op = "input", !.trenv = trenv, !.qs = qs,
                             !.draw = <<h, u, u>>]

KisFetch ==
  /\ last.op = "input"
  /\ last' = [last EXCEPT
                !.op = "get_market_data",
                !.ret = KisGetMarketData(last.trenv, last.qs,
                                         last.draw[1], last.draw[2], last.draw[3]),
                !.kis_calls = 1, !.ok = TRUE]
  /\ UNCHANGED <<store, today, threads_publisher>>

NextKis == KisFetch

SpecKis == InitKis /\ [][NextKis]_vars

-----------------------------------------------------------------------------
(* The validators on their own: the initial state draws a map over          *)
(* ValidatorNames with prices in ValidatorPrices and an insertion order of  *)
(* its keys, and one step calls both validators on it.                      *)

\* "NIKKEI" is an index neither validator knows by name.
ValidatorNames == {"KOSPI", "S&P500", "NASDAQ", "NIKKEI"}

ValidatorPrices == {NonNumeric, -100, 0, RealPrice}

Orders(S) ==
  {o \in [1..Cardinality(S) -> S] : \A i, j \in 1..Cardinality(S) : o[i] = o[j] => i = j}

ValidatorInputs ==
  {EmptyDict} \cup
  UNION { {Snap(m, [n \in S |-> 0], "input", {}) : m \in [S -> ValidatorPrices]} :
          S \in SUBSET ValidatorNames }

InitValidator ==
  /\ store = EmptyMap
  /\ today = 0
  /\ threads_publisher = ThreadsPublisher(NoCredentials)
  /\ \E data \in ValidatorInputs :
       \E order \in Orders(DOMAIN data.indices) :
         last = [NoCall EXCEPT !.op = "input", !.rt = data, !.order = order]

Validate ==
  /\ last.op = "input"
  /\ last' = [last EXCEPT
                !.op = "validate",
                !.valid_realtime = _is_valid_realtime_data(last.rt),
                !.valid_crawled = _is_valid_crawled_data(last.rt, last.order)]
  /\ UNCHANGED <<store, today, threads_publisher>>

NextValidator == Validate

SpecValidator == InitValidator /\ [][NextValidator]_vars

-----------------------------------------------------------------------------
(* The two collectors that merge an overseas and a domestic partial result: *)
(* the initial state draws what the overseas adapter and the brokerage      *)
(* adapter do and the draws of the backup generators, and one step is one   *)
(* collecting call on them.                                                 *)

\* YahooFinanceCrawler: its generated map for the draws, or (substituted) an
\* exception or a map that also has a domestic index name.
CrawlerOverseasBehaviours(hour, u) ==
  { [raises |-> FALSE, data |-> get_overseas_market_data(hour, u, u)],
    [raises |-> FALSE, data |-> OverlapOverseas],
    [raises |-> TRUE, data |-> EmptyDict] }

\* YahooFinanceClient: the indices whose ticker answered, or (substituted)
\* an exception or a map that also has a domestic index name.
ClientOverseasBehaviours ==
  { [raises |-> FALSE, data |-> YahooClientGetOverseas(got)] :
      got \in {{}, {"S&P500"}, {"S&P500", "NASDAQ"}, OverseasNames} }
    \cup { [raises |-> FALSE, data |-> OverlapOverseas],
           [raises |-> TRUE, data |-> EmptyDict] }

InitCollect ==
  /\ store = EmptyMap
  /\ today = 0
  /\ threads_publisher = ThreadsPublisher(NoCredentials)
  /\ \E beh \in AdapterBehaviours, h \in Hours, u \in Jitters :
       \E ov \in CrawlerOverseasBehaviours(h, u) \cup ClientOverseasBehaviours :
         last = [NoCall EXCEPT !.op = "input", !.kis = beh, !.ov = ov,
                               !.draw = <<h, u, u>>]

GetMarketDataWithCrawling ==
  /\ last.op = "input"
  /\ last.ov \in CrawlerOverseasBehaviours(last.draw[1], last.draw[2])
  /\ \E time_slot \in SlotInputs :
       LET r == get_market_data_with_crawling(last.ov, last.kis, last.draw[1],
                                              last.draw[2], last.draw[3])
       IN last' = [last EXCEPT
                     !.op = "get_market_data_with_crawling",
                     !.time_slot = time_slot,
                     !.overseas = r.overseas, !.domestic = r.domestic,
                     !.merged = r.merged, !.ret = r.ret,
                     !.valid_crawled = r.validated,
                     !.kis_calls = 1, !.ok = TRUE]
  /\ UNCHANGED <<store, today, threads_publisher>>

GetRealTimeData ==
  /\ last.op = "input"
  /\ last.ov \in ClientOverseasBehaviours
  /\ LET r == get_real_time_data(last.ov, last.kis)
     IN last' = [last EXCEPT
                   !.op = "get_real_time_data",
                   !.overseas = r.overseas, !.domestic = r.domestic,
                   !.merged = r.merged, !.ret = r.ret,
                   !.kis_calls = 1, !.ok = TRUE]
  /\ UNCHANGED <<store, today, threads_publisher>>

NextCollect ==
  \/ GetMarketDataWithCrawling
  \/ GetRealTimeData

SpecCollect == InitCollect /\ [][NextCollect]_vars

-----------------------------------------------------------------------------
(* The generators on their own: the initial state draws the hour of day and *)
(* the two random draws, and one step is one generator call on them.        *)

AllHours == 0..23

InitGenerators ==
  /\ store = EmptyMap
  /\ today = 0
  /\ threads_publisher = ThreadsPublisher(NoCredentials)
  /\ \E h \in AllHours, u \in Jitters, cu \in Jitters :
       last = [NoCall EXCEPT !.op = "input", !.draw = <<h, u, cu>>]

GetOverseasMarketData ==
  /\ last.op = "input"
  /\ last' = [last EXCEPT
                !.op = "get_overseas_market_data",
                !.ret = get_overseas_market_data(last.draw[1], last.draw[2],
                                                 last.draw[3]),
                !.ok = TRUE]
  /\ UNCHANGED <<store, today, threads_publisher>>

GetBackupData ==
  /\ last.op = "input"
  /\ last' = [last EXCEPT
                !.op = "_get_backup_data",
                !.ret = CrawlerGetBackupData(last.draw[1], last.draw[2],
                                             last.draw[3]),
                !.ok = TRUE]
  /\ UNCHANGED <<store, today, threads_publisher>>

GetDomesticBackupData ==
  /\ last.op = "input"
  /\ last' = [last EXCEPT
                !.op = "_get_domestic_backup_data",
                !.ret = _get_domestic_backup_data(last.draw[1], last.draw[2],
                                                  last.draw[3]),
                !.ok = TRUE]
  /\ UNCHANGED <<store, today, threads_publisher>>

NextGenerators ==
  \/ GetOverseasMarketData
  \/ GetBackupData
  \/ GetDomesticBackupData

SpecGenerators == InitGenerators /\ [][NextGenerators]_vars

-----------------------------------------------------------------------------
(* The scraper on its own: the initial state draws whether the page request *)
(* fails and what each label pattern captures, and one step is one          *)
(* get_domestic_market_data call.                                           *)

\* Captured numbers: 0, 805.81 (in band for KOSDAQ only), 3227.68 (in band
\* for KOSPI only).
MatchValues == {NoMatch, 0, 80581, 322768}

\* The third pattern of an index (label + "지수") matches only where the
\* second (label) does.
PatternMatches ==
  {m \in [1..3 -> MatchValues] : m[2] = NoMatch => m[3] = NoMatch}

InitNaver ==
  /\ store = EmptyMap
  /\ today = 0
  /\ threads_publisher = ThreadsPublisher(NoCredentials)
  /\ \E f \in BOOLEAN, cu \in {0, 1}, page \in [DomesticNames -> PatternMatches] :
       /\ f => (cu = 0 /\ page = [n \in DomesticNames |-> <<NoMatch, NoMatch, NoMatch>>])
       /\ last = [NoCall EXCEPT !.op = "input", !.fetch_fails = f, !.page = page,
                                !.draw = <<12, 0, cu>>]

GetDomesticMarketData ==
  /\ last.op = "input"
  /\ last' = [last EXCEPT
                !.op = "get_domestic_market_data",
                !.ret = get_domestic_market_data(last.fetch_fails, last.page,
                                                 last.draw[3] * 100),
                !.ok = TRUE]
  /\ UNCHANGED <<store, today, threads_publisher>>

NextNaver == GetDomesticMarketData

SpecNaver == InitNaver /\ [][NextNaver]_vars

-----------------------------------------------------------------------------
(* The store on its own: saves of several snapshots under both data types   *)
(* with every failure of the write, loads, latest lookups and cleanups,     *)
(* over the days.                                                           *)

\* The snapshots saved: the module's test_data and an empty dict.
StoreSnapshots == {test_data, EmptyDict}

\* days_to_keep arguments; 30 is the default.
KeepDays == {0, 1, 30}

Save ==
  \E market_data \in StoreSnapshots, data_type \in DataTypes,
     failure \in SaveFailures :
    LET r == save_market_data(store, today, market_data, data_type, failure)
    IN /\ Cardinality(DOMAIN r.store) <= MaxFiles
       /\ store' = r.store
       /\ last' = [NoCall EXCEPT
                     !.op = "save_market_data", !.time_slot = data_type,
                     !.rt = market_data, !.ok = r.ok]
       /\ UNCHANGED <<today, threads_publisher>>

\* load_market_data(data_type = t) and load_market_data(target_date, t);
\* target_date None is today.
Load ==
  \E target_date \in Days, data_type \in DataTypes :
    /\ target_date <= today
    /\ last' = [NoCall EXCEPT
                  !.op = "load_market_data", !.time_slot = data_type,
                  !.target_date = target_date,
                  !.ret = load_market_data(store, target_date, data_type),
                  !.ok = TRUE]
    /\ UNCHANGED <<store, today, threads_publisher>>

GetLatest ==
  \E data_type \in DataTypes :
    /\ last' = [NoCall EXCEPT
                  !.op = "get_latest_market_data", !.time_slot = data_type,
                  !.ret = get_latest_market_data(store, data_type),
                  !.ok = TRUE]
    /\ UNCHANGED <<store, today, threads_publisher>>

CleanupOldData ==
  \E days_to_keep \in KeepDays :
    LET old == {k \in DOMAIN store : k[1] < today - days_to_keep}
    IN \E unlink_fails \in BOOLEAN, before \in SUBSET old :
         LET r == cleanup_old_data(store, today, days_to_keep, unlink_fails, before)
         IN /\ unlink_fails => before # old
            /\ ~unlink_fails => before = {}
            /\ store' = r.store
            /\ last' = [NoCall EXCEPT
                          !.op = "cleanup_old_data",
                          !.days_to_keep = days_to_keep,
                          !.deleted_count = r.deleted_count, !.ok = TRUE]
            /\ UNCHANGED <<today, threads_publisher>>

NextStore ==
  \/ NextDay
  \/ Save
  \/ Load
  \/ GetLatest
  \/ CleanupOldData

SpecStore == Init /\ [][NextStore]_vars

(* The briefing generator on its own: the initial state draws the time slot *)
(* and the market data, and one step is one generate_briefing call.         *)

\* The six keys of time_topics, a time that is no slot, and the empty string.
GeneratorSlots == SlotInputs \cup {"09:00", ""}

\* What the strategy can hand over (a stored record, a live map, a backup
\* map), the empty dict, a map with a non-numeric value, and maps holding
\* prices of 0.
\* Maps holding indices priced 0: all five, or KOSDAQ and NASDAQ only next
\* to fetched prices, with no change entries, with numeric ones, or with
\* non-numeric ones for the indices priced 0.
ZeroPriceData ==
  {Snap([n \in IndexNames |-> IF n \in zeros THEN 0 ELSE test_data.indices[n]],
        [n \in chg |-> IF n \in zeros THEN c ELSE test_data.changes[n]],
        "zero", {}) :
     zeros \in {IndexNames, {"KOSDAQ", "NASDAQ"}},
     chg \in {{}, IndexNames}, c \in {232, NonNumeric}}

GeneratorData ==
  KisOutputs \cup StubbedOutputs \cup {test_data, EmptyDict}
    \cup {_get_backup_data(s) : s \in TimeSlots}
    \cup {Snap([n \in {"KOSPI", "S&P500"} |-> 0], EmptyMap, "zero", {})}
    \cup ZeroPriceData

InitGenerator ==
  /\ store = EmptyMap
  /\ today = 0
  /\ threads_publisher = ThreadsPublisher(NoCredentials)
  /\ \E time_slot \in GeneratorSlots, market_data \in GeneratorData :
       last = [NoCall EXCEPT !.op = "input", !.time_slot = time_slot,
                             !.rt = market_data]

GenerateBriefing ==
  /\ last.op = "input"
  /\ LET topic == time_topics(last.time_slot)
         r     == generate_briefing(last.time_slot, topic, last.rt)
     IN last' = [last EXCEPT !.op = "generate_briefing", !.topic = topic,
                             !.briefing = r, !.error = r.raised,
                             !.raised = (r.raised # "none"),
                             !.briefing_content =
                                IF r.raised = "none" THEN format_for_threads(r)
                                ELSE NoText]
  /\ UNCHANGED <<store, today, threads_publisher>>

NextGenerator == GenerateBriefing

SpecGenerator == InitGenerator /\ [][NextGenerator]_vars

-----------------------------------------------------------------------------
(* The publisher on its own: the initial state draws the two settings of    *)
(* the client, and one step is one publish_briefing call, whose two         *)
(* requests do what the step draws, or one get_post_stats call.             *)

PublishSlots == {"07:00", "15:40", "now"}

PublishContents ==
  {format_for_threads(generate_briefing(s, time_topics(s), test_data)) :
     s \in {"07:00", "15:40"}}

InitPublisher ==
  /\ store = EmptyMap
  /\ today = 0
  /\ last = NoCall
  /\ \E client \in Credentials : threads_publisher = ThreadsPublisher(client)

PublishBriefing ==
  \E time_slot \in PublishSlots, briefing_content \in PublishContents,
     remote \in RemoteBehaviours :
    LET topic == time_topics(time_slot)
        r     == publish_briefing(threads_publisher, time_slot, topic,
                                  briefing_content, remote)
    IN /\ Len(threads_publisher.post_history) < MaxPosts
       /\ threads_publisher' = r.publisher
       /\ last' = [NoCall EXCEPT
                     !.op = "publish_briefing", !.time_slot = time_slot,
                     !.topic = topic, !.briefing_content = briefing_content,
                     !.remote = remote, !.publish_result = r.result,
                     !.requests = r.requests, !.ok = r.result.success]
       /\ UNCHANGED <<store, today>>

GetPostStats ==
  /\ last' = [NoCall EXCEPT !.op = "get_post_stats",
                            !.stats = get_post_stats(threads_publisher)]
  /\ UNCHANGED <<store, today, threads_publisher>>

NextPublisher ==
  \/ PublishBriefing
  \/ GetPostStats

SpecPublisher == InitPublisher /\ [][NextPublisher]_vars

-----------------------------------------------------------------------------
(* The orchestrator: the initial state draws whether the publisher's client  *)
(* has its two settings; a step saves a record in the store, is one         *)
(* run_briefing call or is one run_all_briefings call, in which the adapter *)
(* and the two requests do what the step draws.                             *)

InitBriefing ==
  /\ store = EmptyMap
  /\ today = 0
  /\ last = NoCall
  /\ \E configured \in BOOLEAN :
       threads_publisher =
         ThreadsPublisher([access_token |-> configured, user_id |-> configured])

\* What the two requests do in a run: both succeed, the first gets another
\* status, or the second raises.
RunRemoteBehaviours ==
  {[container |-> "ok", publish |-> "ok"],
   [container |-> "non200", publish |-> "ok"],
   [container |-> "ok", publish |-> "raises"]}

\* What the adapter does in a run: it raises, returns its sample map
\* (not authenticated), returns a map of one fetched and four zero prices
\* replaced by dummy values, or returns a map holding a non-numeric value.
RunAdapterBehaviours ==
  {[raises |-> TRUE, data |-> EmptyDict]}
    \cup {[raises |-> FALSE, data |-> d] :
            d \in {KisGetMarketData(FALSE, <<"none", "none">>, 12, 0, 1),
                   KisGetMarketData(TRUE, <<"real", "zero">>, 12, 0, 1)}
                     \cup StubbedOutputs}

RunBriefing ==
  \E time_slot \in SlotInputs, beh \in RunAdapterBehaviours,
     remote \in RunRemoteBehaviours :
    LET r == run_briefing(store, today, threads_publisher, time_slot, beh, remote)
    IN /\ Len(threads_publisher.post_history) < MaxBriefings
       /\ threads_publisher' = r.publisher
       /\ last' = [NoCall EXCEPT
                     !.op = "run_briefing", !.time_slot = time_slot,
                     !.rt = _get_realtime_data(beh), !.remote = remote,
                     !.topic = r.topic, !.ret = r.market_data,
                     !.error = r.error, !.raised = FALSE,
                     !.briefing_content = r.briefing_content,
                     !.publish_result = r.publish_result,
                     !.requests = r.requests, !.steps = r.steps,
                     !.ok = r.success]
       /\ UNCHANGED <<store, today>>

\* run_all_briefings on a system that has published nothing yet.
RunAllBriefings ==
  \E beh \in RunAdapterBehaviours, remote \in RunRemoteBehaviours :
    LET r == run_all_briefings(store, today, threads_publisher, beh, remote)
    IN /\ threads_publisher.post_history = <<>>
       /\ threads_publisher' = r.publisher
       /\ last' = [NoCall EXCEPT
                     !.op = "run_all_briefings",
                     !.rt = _get_realtime_data(beh), !.remote = remote,
                     !.results = r.results]
       /\ UNCHANGED <<store, today>>

NextBriefing ==
  \/ SaveMarketData
  \/ RunBriefing
  \/ RunAllBriefings

SpecBriefing == InitBriefing /\ [][NextBriefing]_vars

-----------------------------------------------------------------------------
(* The slot selection on its own: the initial state draws the time of day,  *)
(* and one step is one get_current_briefing_type call at that time and one  *)
(* call of the tests' reference.                                            *)

InitSlot ==
  /\ store = EmptyMap
  /\ today = 0
  /\ threads_publisher = ThreadsPublisher(NoCredentials)
  /\ \E t \in TimesOfDay :
       last = [NoCall EXCEPT !.op = "input", !.current_time = t]

GetCurrentBriefingType ==
  /\ last.op = "input"
  /\ last' = [last EXCEPT
                !.op = "get_current_briefing_type",
                !.briefing_type = get_current_briefing_type(last.current_time),
                !.reference_type = get_briefing_type_for_time(last.current_time)]
  /\ UNCHANGED <<store, today, threads_publisher>>

NextSlot == GetCurrentBriefingType

SpecSlot == InitSlot /\ [][NextSlot]_vars

-----------------------------------------------------------------------------
TypeOK ==
  /\ today \in Days
  /\ DOMAIN store \subseteq Days \X DataTypes
  /\ last.op \in {"init", "get_market_data_with_strategy",
                  "collect_and_store_closing_data", "save_market_data",
                  "get_market_data", "validate", "input",
                  "get_market_data_with_crawling", "get_real_time_data",
                  "get_overseas_market_data", "_get_backup_data",
                  "_get_domestic_backup_data", "get_domestic_market_data",
                  "load_market_data", "get_latest_market_data",
                  "cleanup_old_data", "generate_briefing",
                  "publish_briefing", "run_briefing", "get_post_stats",
                  "get_current_briefing_type", "run_all_briefings"}
  /\ threads_publisher.client \in Credentials
  /\ Len(threads_publisher.post_history) <= MaxPosts + Len(time_topics_keys)

-----------------------------------------------------------------------------
(* Vocabulary of the properties *)

GetOp == "get_market_data_with_strategy"

\* A step that is one get_market_data_with_strategy call: store and today
\* are the store and the day the call ran on, last' is what it returned.
GetStep == last' # last /\ last'.op = GetOp

\* The data type the stored lookup is to use for a slot.
SlotType(slot) == IF slot = "12:00" THEN "midday" ELSE "closing"

HasRecord(st, slot) == \E k \in DOMAIN st : k[2] = SlotType(slot)

\* The record the stored lookup is to select: today's, else yesterday's,
\* else the one of that type written last.
Selected(st, day, slot) ==
  LET t == SlotType(slot)
  IN IF <<day, t>> \in DOMAIN st THEN st[<<day, t>>]
     ELSE IF <<day - 1, t>> \in DOMAIN st THEN st[<<day - 1, t>>]
     ELSE LET ks == {k \in DOMAIN st : k[2] = t}
          IN st[CHOOSE k \in ks : \A j \in ks : st[j].mtime <= st[k].mtime]

-----------------------------------------------------------------------------
(* C1 *)

\* C1: get_market_data_with_strategy is total: whatever the slot, the store
\* and the adapter do (a map with a non-numeric index value included), the
\* call returns a snapshot and raises nothing.
C1_NeverRaises == last.op = GetOp => ~last.raised

-----------------------------------------------------------------------------
(* C2 *)

-----------------------------------------------------------------------------
(* C3 *)

-----------------------------------------------------------------------------
(* C4 *)

-----------------------------------------------------------------------------
(* C5 *)

\* The source tags that mark a snapshot as generated.
SyntheticTags ==
  {"synthetic", "realistic_dummy_data", "realistic_dummy", "realistic_backup",
   "backup_data", "domestic_backup", "mixed_error_backup"}
    \cup {"backup_data_" \o t : t \in SlotInputs}

\* C5: whenever index values of a returned snapshot were produced by a
\* sample, dummy or backup generator, its source tag identifies it as
\* synthetic; a snapshot tagged "kis_api" holds no generated value.
C5_Provenance ==
  (last.op = "get_market_data" /\ last.ret.generated # {})
    => last.ret.source \in SyntheticTags

-----------------------------------------------------------------------------
(* C6 *)

-----------------------------------------------------------------------------
(* C7 *)

Numeric(ind) == \A n \in DOMAIN ind : ind[n] # NonNumeric

\* The map is empty, has fewer than 2 indices, or has a price <= 0.
Rejectable(ind) ==
  \/ Cardinality(DOMAIN ind) < 2
  \/ \E n \in DOMAIN ind : ind[n] # NonNumeric /\ ind[n] <= 0

\* No index the realtime validator knows by name has a price > 0.
NoKnownPositive(ind) ==
  \A n \in (DOMAIN ind) \cap IndexNames : ind[n] = NonNumeric \/ ind[n] <= 0

-----------------------------------------------------------------------------
(* C8 *)

-----------------------------------------------------------------------------
(* C9 *)

-----------------------------------------------------------------------------
(* C10 *)

\* C10: collect_and_store_closing_data writes only fetched, validated data,
\* so no record in the store holds a sample, dummy or backup value.
C10_NoGeneratedStored ==
  \A k \in DOMAIN store : store[k].market_data.generated = {}

-----------------------------------------------------------------------------
(* C11 *)

CollectOps == {"get_market_data_with_crawling", "get_real_time_data"}

BothPresent == Truthy(last.overseas) /\ Truthy(last.domestic)

\* C11: in both collectors, when the overseas and the domestic partial
\* results are both present, the merged map has the union of their index
\* names, an index in both carries the domestic (later) value in indices and
\* in changes, and an index only in the overseas result keeps its value.
C11_MergePolicy ==
  (last.op \in CollectOps /\ BothPresent) =>
    /\ DOMAIN last.merged.indices =
         (DOMAIN last.overseas.indices) \cup (DOMAIN last.domestic.indices)
    /\ DOMAIN last.merged.changes =
         (DOMAIN last.overseas.changes) \cup (DOMAIN last.domestic.changes)
    /\ \A n \in DOMAIN last.domestic.indices :
         /\ last.merged.indices[n] = last.domestic.indices[n]
         /\ last.merged.changes[n] = last.domestic.changes[n]
    /\ \A n \in (DOMAIN last.overseas.indices) \ (DOMAIN last.domestic.indices) :
         /\ last.merged.indices[n] = last.overseas.indices[n]
         /\ last.merged.changes[n] = last.overseas.changes[n]
    /\ (last.op = "get_real_time_data" \/ last.valid_crawled = "True")
         => (/\ last.ret.indices = last.merged.indices
             /\ last.ret.changes = last.merged.changes)

\* C11 witness: a crawling call in which both partial results had KOSPI with
\* different values, and the returned map carries the domestic one.
C11_Witness ==
  /\ last.op = "get_market_data_with_crawling" /\ BothPresent
  /\ "KOSPI" \in (DOMAIN last.overseas.indices) \cap (DOMAIN last.domestic.indices)
  /\ last.overseas.indices["KOSPI"] # last.domestic.indices["KOSPI"]
  /\ last.ret.indices["KOSPI"] = last.domestic.indices["KOSPI"]
  /\ last.ret.source = "mixed_success"

-----------------------------------------------------------------------------
(* C12 *)

GeneratorOps ==
  {"get_overseas_market_data", "_get_backup_data", "_get_domestic_backup_data"}

\* C12: for every hour of day and every jitter the generators can draw,
\* every price a synthetic generator produces is > 0 and lies within the
\* band the code documents for its index.
C12_Plausible ==
  last.op \in GeneratorOps =>
    \A n \in DOMAIN last.ret.indices :
      /\ last.ret.indices[n] > 0
      /\ _is_valid_price(last.ret.indices[n], n)

-----------------------------------------------------------------------------
(* C13 *)

\* Some pattern of the index captured a number in its band.
YieldsInBand(matches, n) ==
  \E i \in 1..3 : matches[i] # NoMatch /\ _is_valid_price(matches[i], n)

\* C13: get_domestic_market_data never includes an index whose extracted
\* price is outside its band, and an index none of whose patterns captured
\* an in-band number is omitted from the result.
C13_BandChecked ==
  last.op = "get_domestic_market_data" =>
    \A n \in DomesticNames :
      /\ n \in DOMAIN last.ret.indices => _is_valid_price(last.ret.indices[n], n)
      /\ ~YieldsInBand(last.page[n], n) => n \notin DOMAIN last.ret.indices

-----------------------------------------------------------------------------
(* C14 *)

SaveStep == last' # last /\ last'.op = "save_market_data"

LoadStep == last'.op = "load_market_data"

\* C14: right after save_market_data(snapshot, data_type) has returned
\* true, load_market_data of today and that data type gives the saved
\* indices and changes; and a load of today's key whose file was written by
\* a save that returned true returns the indices and changes of that save.
C14_RoundTrip ==
  [][/\ (SaveStep /\ last'.ok) =>
          /\ load_market_data(store', today, last'.time_slot).indices
               = last'.rt.indices
          /\ load_market_data(store', today, last'.time_slot).changes
               = last'.rt.changes
     /\ (LoadStep /\ last'.target_date = today
           /\ <<today, last'.time_slot>> \in DOMAIN store
           /\ store[<<today, last'.time_slot>>].text.complete) =>
          /\ last'.ret.indices
               = store[<<today, last'.time_slot>>].market_data.indices
          /\ last'.ret.changes
               = store[<<today, last'.time_slot>>].market_data.changes]_vars

\* C14 witness: a load of today's midday record returned the five indices
\* and changes of the saved test_data.
C14_Witness ==
  /\ last.op = "load_market_data" /\ last.time_slot = "midday"
  /\ last.target_date = today /\ today > 0
  /\ <<today, "midday">> \in DOMAIN store
  /\ DOMAIN last.ret.indices = IndexNames
  /\ last.ret.indices = store[<<today, "midday">>].market_data.indices
  /\ last.ret.changes["KOSPI"] = 2954

-----------------------------------------------------------------------------
(* C15 *)

\* C15: the store holds one record per (date, data_type); after every save
\* call, load of every key returns the snapshot of the most recent save of
\* that key that returned true (nothing when there is none), and the call
\* changes what load returns for no key other than (today, data_type).
C15_Overwrite ==
  [][SaveStep =>
       /\ \A k \in DOMAIN store' :
            load_market_data(store', k[1], k[2]) = store'[k].market_data
       /\ \A k \in (DOMAIN store) \cup (DOMAIN store') :
            k # <<today, last'.time_slot>> =>
              load_market_data(store', k[1], k[2])
                = load_market_data(store, k[1], k[2])]_vars

-----------------------------------------------------------------------------
(* C16 *)

\* The files of a data type, and whether all of them are complete.
FilesOf(st, t) == {k \in DOMAIN st : k[2] = t}

AllComplete(st, t) == \A k \in FilesOf(st, t) : st[k].text.complete

-----------------------------------------------------------------------------
(* C17 *)

\* C17: cleanup_old_data(days_to_keep) deletes exactly the records dated
\* before today - days_to_keep, leaves every other record as it was, and
\* returns the number of records it deleted.
C17_Sweep ==
  [][(last' # last /\ last'.op = "cleanup_old_data") =>
       /\ DOMAIN store' =
            {k \in DOMAIN store : ~(k[1] < today - last'.days_to_keep)}
       /\ \A k \in DOMAIN store' : store'[k] = store[k]
       /\ last'.deleted_count = Cardinality((DOMAIN store) \ (DOMAIN store'))]_vars

-----------------------------------------------------------------------------
(* C18 *)

\* C18: run_briefing never raises and always returns a success flag; for
\* each of the five supported slots it returns success = true with briefing
\* content, whatever the adapter, the stored records and the two requests
\* do; it returns success = false, with an error, only for another slot.
C18_Degrades ==
  last.op = "run_briefing" =>
    /\ ~last.raised
    /\ last.ok \in BOOLEAN
    /\ last.time_slot \in TimeSlots =>
         /\ last.ok
         /\ \E i \in 1..Len(last.briefing_content) :
              last.briefing_content[i].kind = "main"
    /\ ~last.ok => (last.time_slot \notin TimeSlots /\ last.error # "none")

-----------------------------------------------------------------------------
(* C19 *)

\* The template of each supported slot and the hashtag list it ends with.
SlotTemplate ==
  [s \in TimeSlots |->
     CASE s = "07:00" -> "us_market_close"
       [] s = "08:00" -> "kr_market_preview"
       [] s = "12:00" -> "kr_market_midday"
       [] s = "15:40" -> "kr_market_close"
       [] s = "19:00" -> "us_market_preview"]

SlotHashtags ==
  [s \in TimeSlots |->
     CASE s = "07:00" -> <<"#USmarket", "#S&P500", "#NASDAQ", "#GlobalMarket">>
       [] s = "08:00" -> <<"#KRmarket", "#KOSPI", "#KOSDAQ", "#TodaysMarket">>
       [] s = "12:00" -> <<"#KRmarket", "#MorningSession", "#MarketStatus",
                           "#InvestorTrend">>
       [] s = "15:40" -> <<"#KRmarket", "#Close", "#DailyMarket", "#InvestStrategy">>
       [] s = "19:00" -> <<"#USmarket", "#PreMarket", "#GlobalIssue", "#Earnings">>]

\* Every index value and change of the map is a number.
AllNumbers(md) ==
  /\ \A n \in DOMAIN md.indices : md.indices[n] # NonNumeric
  /\ \A n \in DOMAIN md.changes : md.changes[n] # NonNumeric

\* C19: generate_briefing raises ValueError for every time slot other than
\* the five supported ones, whatever the market data; for a supported slot
\* it never raises ValueError, it enters that slot's own template, with
\* numeric market data it returns, and the briefing it returns carries that
\* slot's hashtag list.
C19_Dispatch ==
  last.op = "generate_briefing" =>
    /\ last.time_slot \notin TimeSlots =>
         last.error = "ValueError" /\ last.briefing.template = "none"
    /\ last.time_slot \in TimeSlots =>
         /\ last.error # "ValueError"
         /\ last.briefing.template = SlotTemplate[last.time_slot]
         /\ AllNumbers(last.rt) => last.error = "none"
         /\ last.error = "none" =>
              last.briefing.hashtags = SlotHashtags[last.time_slot]

\* C19 witness: the call with "now" (a key of the orchestrator's topic table)
\* and the five-index stored snapshot raised ValueError.
C19_Witness ==
  /\ last.op = "generate_briefing"
  /\ last.time_slot = "now"
  /\ last.rt = test_data
  /\ last.error = "ValueError"

-----------------------------------------------------------------------------
(* C20 *)

\* The client lacks the access token or the user id.
NotConfigured(client) == ~client.access_token \/ ~client.user_id

\* C20: when the access token or the user id is not configured,
\* publish_briefing sends no request, returns success = true with the
\* placeholder post id, and appends exactly one record (that call's time
\* slot, topic, content and result) to post_history.
C20_NoCredentials ==
  [][(last'.op = "publish_briefing" /\ threads_publisher' # threads_publisher
        /\ NotConfigured(threads_publisher.client)) =>
       /\ last'.requests = <<>>
       /\ last'.publish_result.success
       /\ last'.publish_result.id = "simulated_post_id"
       /\ threads_publisher'.post_history =
            Append(threads_publisher.post_history,
                   [time_slot |-> last'.time_slot, topic |-> last'.topic,
                    content |-> last'.briefing_content,
                    result |-> last'.publish_result])
       /\ threads_publisher'.client = threads_publisher.client]_vars

\* C20 witness: with an access token but no user id, a second
\* publish_briefing call sent no request, returned the placeholder id and
\* the history holds two records.
C20_Witness ==
  /\ last.op = "publish_briefing"
  /\ threads_publisher.client = [access_token |-> TRUE, user_id |-> FALSE]
  /\ last.remote = [container |-> "ok", publish |-> "ok"]
  /\ last.requests = <<>>
  /\ last.publish_result.id = "simulated_post_id"
  /\ Len(threads_publisher.post_history) = 2
  /\ threads_publisher.post_history[2].result = last.publish_result

-----------------------------------------------------------------------------
(* C21 *)

\* One of the two requests of the call failed.
RemoteFailed(remote) == remote.container # "ok" \/ remote.publish # "ok"

\* C21: with both settings configured, when the create-container request or
\* the publish request fails (another status, no id, or an exception),
\* publish_briefing returns the simulated result: success = true and the
\* placeholder id; publish_briefing returns success = true in every case and
\* never raises.
C21_Fallback ==
  [][(last'.op = "publish_briefing" /\ threads_publisher' # threads_publisher) =>
       /\ ~last'.raised
       /\ last'.publish_result.success
       /\ (~NotConfigured(threads_publisher.client) /\ RemoteFailed(last'.remote)) =>
            /\ last'.publish_result.id = "simulated_post_id"
            /\ last'.publish_result.container_id = ""
            /\ last'.publish_result =
                 _simulate_post([metadata |-> time_metadata(last'.time_slot),
                                 text |-> last'.briefing_content])]_vars

\* C21 witness: with both settings configured, the container was created,
\* the publish request raised, and the call returned the placeholder id
\* after the two requests.
C21_Witness ==
  /\ last.op = "publish_briefing"
  /\ ~NotConfigured(threads_publisher.client)
  /\ last.remote = [container |-> "ok", publish |-> "raises"]
  /\ Len(last.requests) = 3
  /\ last.requests[3].url = "publish_url"
  /\ last.publish_result.id = "simulated_post_id"
  /\ last.publish_result.success

-----------------------------------------------------------------------------
(* C22 *)

\* Positions of the trace holding a request to url.
RequestsTo(trace, url) == {i \in 1..Len(trace) : trace[i].url = url}

\* C22: within one post_thread call at most one publish request is sent; it
\* is sent only after the create-container request returned an id and after
\* the wait, and its creation_id is that id; when the container request
\* fails no publish request is sent; a post id other than the placeholder is
\* returned only when both requests succeeded, in that order.
C22_TwoPhase ==
  last.op = "publish_briefing" =>
    LET trace     == last.requests
        publishes == RequestsTo(trace, "publish_url")
        creates   == RequestsTo(trace, "create_container_url")
    IN /\ Cardinality(publishes) <= 1
       /\ Cardinality(creates) <= 1
       /\ \A i \in publishes :
            /\ last.remote.container = "ok"
            /\ \E c \in creates, w \in RequestsTo(trace, "time.sleep") :
                 c < w /\ w < i
            /\ trace[i].creation_id = ResponseOf(last.remote.container, "container_1").id
            /\ trace[i].creation_id # ""
       /\ last.remote.container # "ok" => publishes = {}
       /\ last.publish_result.id # "simulated_post_id" =>
            /\ last.remote = [container |-> "ok", publish |-> "ok"]
            /\ creates # {} /\ publishes # {}
            /\ last.publish_result.id = ResponseOf(last.remote.publish, "post_1").id
            /\ last.publish_result.container_id = trace[CHOOSE i \in publishes : TRUE].creation_id

\* C22 witness: both requests succeeded and the call returned the post id
\* of the publish response, with the container id it published.
C22_Witness ==
  /\ last.op = "publish_briefing"
  /\ last.remote = [container |-> "ok", publish |-> "ok"]
  /\ Len(last.requests) = 3
  /\ last.requests[3].creation_id = "container_1"
  /\ last.publish_result.id = "post_1"
  /\ last.publish_result.container_id = "container_1"

-----------------------------------------------------------------------------
(* C23 *)

RECURSIVE SumOver(_, _)
\* The sum of f over the set S of its keys.
SumOver(f, S) ==
  IF S = {} THEN 0
  ELSE LET x == CHOOSE x \in S : TRUE IN f[x] + SumOver(f, S \ {x})

\* h is an initial part of g.
IsPrefix(h, g) == Len(h) <= Len(g) /\ \A i \in 1..Len(h) : g[i] = h[i]

\* C23: every publish_briefing call, real or simulated, appends exactly one
\* record, that call's, at the end of the history; no step changes or
\* removes a record appended earlier; get_post_stats reports total_posts
\* equal to the history length, per-time-slot counts that sum to
\* total_posts, and last_post equal to the last record of the history.
C23_AppendOnly ==
  [][/\ IsPrefix(threads_publisher.post_history, threads_publisher'.post_history)
     /\ (last'.op = "publish_briefing" /\ threads_publisher' # threads_publisher) =>
          threads_publisher'.post_history =
            Append(threads_publisher.post_history,
                   [time_slot |-> last'.time_slot, topic |-> last'.topic,
                    content |-> last'.briefing_content,
                    result |-> last'.publish_result])
     /\ last'.op # "publish_briefing" =>
          threads_publisher'.post_history = threads_publisher.post_history
     /\ last'.op = "get_post_stats" =>
          LET h == threads_publisher'.post_history
              st == last'.stats
          IN /\ st.total_posts = Len(h)
             /\ SumOver(st.time_slot_stats, DOMAIN st.time_slot_stats) = st.total_posts
             /\ \A t \in DOMAIN st.time_slot_stats :
                  st.time_slot_stats[t] =
                    Cardinality({i \in 1..Len(h) : h[i].time_slot = t})
             /\ Len(h) > 0 => st.last_post = h[Len(h)]
             /\ Len(h) = 0 => st.last_post = NoPost]_vars

\* C23 witness: after a simulated post for 07:00 and a real post for 15:40,
\* get_post_stats reported two posts, one per slot, and the 15:40 record as
\* last_post.
C23_Witness ==
  /\ last.op = "get_post_stats"
  /\ Len(threads_publisher.post_history) = 2
  /\ threads_publisher.post_history[1].time_slot = "07:00"
  /\ threads_publisher.post_history[1].result.id = "simulated_post_id"
  /\ threads_publisher.post_history[2].time_slot = "15:40"
  /\ threads_publisher.post_history[2].result.id = "post_1"
  /\ last.stats.total_posts = 2
  /\ last.stats.time_slot_stats["07:00"] = 1
  /\ last.stats.time_slot_stats["15:40"] = 1
  /\ last.stats.last_post = threads_publisher.post_history[2]

-----------------------------------------------------------------------------
(* C24 *)

\* The price a template reads for index n: indices[n], or 0 where the 08:00
\* template finds no such key.
PriceRead(md, n) == IF n \in DOMAIN md.indices THEN md.indices[n] ELSE 0

\* Every price of the map is a number, and so is the change entry of every
\* index with a positive price.
ChangesReadAreNumbers(md) ==
  /\ \A n \in DOMAIN md.indices : md.indices[n] # NonNumeric
  /\ \A n \in (DOMAIN md.indices) \cap (DOMAIN md.changes) :
       md.indices[n] > 0 => md.changes[n] # NonNumeric

\* C24: in each of the five templates no division error is raised, an index
\* whose price is 0 is rendered with a 0.0% change, whatever its change
\* entry is (missing, a number, not a number), and the generation completes
\* when the values it reads for the other indices are numbers.
C24_ZeroGuard ==
  (last.op = "generate_briefing" /\ last.time_slot \in TimeSlots) =>
    /\ last.error # "ZeroDivisionError"
    /\ ChangesReadAreNumbers(last.rt) => last.error = "none"
    /\ last.error = "none" =>
         \A i \in 1..Len(last.briefing.main_content) :
           LET line == last.briefing.main_content[i]
           IN (line.index # "" /\ PriceRead(last.rt, line.index) = 0) =>
                line.change_pct = 0

\* C24 witness: the 12:00 briefing of a map pricing KOSDAQ at 0 with a
\* non-numeric change entry and KOSPI at 3227.68 was generated, with 0.0%
\* for KOSDAQ and +0.9% for KOSPI.
C24_Witness ==
  /\ last.op = "generate_briefing"
  /\ last.time_slot = "12:00"
  /\ "KOSDAQ" \in DOMAIN last.rt.indices
  /\ last.rt.indices["KOSDAQ"] = 0
  /\ "KOSDAQ" \in DOMAIN last.rt.changes
  /\ last.rt.changes["KOSDAQ"] = NonNumeric
  /\ last.error = "none"
  /\ \E i, j \in 1..Len(last.briefing.main_content) :
       /\ last.briefing.main_content[i].index = "KOSDAQ"
       /\ last.briefing.main_content[i].price = 0
       /\ last.briefing.main_content[i].change_pct = 0
       /\ last.briefing.main_content[j].index = "KOSPI"
       /\ last.briefing.main_content[j].change_pct = 9

-----------------------------------------------------------------------------
(* C25 *)

\* The map holds KOSPI and KOSDAQ with positive prices and numeric changes.
ClosingInput(md) ==
  /\ {"KOSPI", "KOSDAQ"} \subseteq DOMAIN md.indices
  /\ \A n \in {"KOSPI", "KOSDAQ"} :
       /\ md.indices[n] # NonNumeric /\ md.indices[n] > 0
       /\ n \in DOMAIN md.changes => md.changes[n] # NonNumeric

\* change / price * 100 rounded to tenths, for the index n of the map.
SignedPercent(md, n) ==
  RoundHalfEven((IF n \in DOMAIN md.changes THEN md.changes[n] ELSE 0) * 1000,
                md.indices[n])

\* The lines of the text that are not blank.
NonBlank(text) == SelectSeq(text, LAMBDA l : l.kind # "blank")

\* C25: for the slot 15:40 and a map holding KOSPI and KOSDAQ with positive
\* prices, the formatted text has exactly one line per index, which gives
\* the price and change / price * 100 rounded to one decimal; the text is
\* the main content, then each comment in order, then one line of the
\* hashtags; its last line is the hashtag line of the slot.
C25_ClosingText ==
  (last.op = "generate_briefing" /\ last.time_slot = "15:40"
     /\ ClosingInput(last.rt)) =>
    LET text  == last.briefing_content
        b     == last.briefing
        lines == NonBlank(text)
        nm    == Len(b.main_content)
        nc    == Len(b.comments)
    IN /\ last.error = "none"
       /\ \A n \in {"KOSPI", "KOSDAQ"} :
            /\ Cardinality({i \in 1..Len(text) :
                              text[i].kind = "main" /\ text[i].line.index = n}) = 1
            /\ \A i \in 1..Len(text) :
                 (text[i].kind = "main" /\ text[i].line.index = n) =>
                   /\ text[i].line.shows_price
                   /\ text[i].line.price = last.rt.indices[n]
                   /\ text[i].line.change_pct = SignedPercent(last.rt, n)
       /\ Len(lines) = nm + nc + 1
       /\ \A i \in 1..nm : lines[i] = TextLine("main", b.main_content[i], <<>>)
       /\ \A i \in 1..nc :
            lines[nm + i] = TextLine("comment", NoLine, <<b.comments[i]>>)
       /\ text[Len(text)] = TextLine("hashtags", NoLine, SlotHashtags["15:40"])
       /\ Cardinality({i \in 1..Len(text) : text[i].kind = "hashtags"}) = 1

\* C25 witness: the 15:40 text of KOSPI 3227.68 (+29.54) and KOSDAQ 805.81
\* (+2.32) has the lines KOSPI 3,227.68 (+0.9%) and KOSDAQ 805.81 (+0.3%)
\* and ends with the hashtag line.
C25_Witness ==
  /\ last.op = "generate_briefing" /\ last.time_slot = "15:40"
  /\ last.rt = test_data
  /\ Len(last.briefing_content) = 10
  /\ last.briefing_content[2].line =
       [label |-> "KOSPI", index |-> "KOSPI", shows_price |-> TRUE,
        price |-> 322768, change_pct |-> 9, raised |-> "none"]
  /\ last.briefing_content[3].line =
       [label |-> "KOSDAQ", index |-> "KOSDAQ", shows_price |-> TRUE,
        price |-> 80581, change_pct |-> 3, raised |-> "none"]
  /\ last.briefing_content[10].kind = "hashtags"

-----------------------------------------------------------------------------
(* C26 *)

\* C26: for the time of day t, get_current_briefing_type returns "12:00"
\* when 09:00 <= t < 12:00, "15:40" when 12:00 <= t <= 15:30, "19:00" when
\* t >= 22:30 or 15:30 < t < 22:30, "07:00" when t <= 05:00 and "08:00" when
\* 05:00 < t < 09:00; the result is one of the five supported slots and is
\* the result of get_briefing_type_for_time for t.
C26_SlotSelection ==
  last.op = "get_current_briefing_type" =>
    LET t == last.current_time
        r == last.briefing_type
    IN /\ (time(9, 0) <= t /\ t < time(12, 0)) => r = "12:00"
       /\ (time(12, 0) <= t /\ t <= time(15, 30)) => r = "15:40"
       /\ (t >= time(22, 30) \/ (time(15, 30) < t /\ t < time(22, 30))) => r = "19:00"
       /\ t <= time(5, 0) => r = "07:00"
       /\ (time(5, 0) < t /\ t < time(9, 0)) => r = "08:00"
       /\ r \in TimeSlots
       /\ r = last.reference_type

\* C26 witness: at 15:30:00, the last second of the Korean session, the
\* selection gave "15:40".
C26_Witness ==
  /\ last.op = "get_current_briefing_type"
  /\ last.current_time = time(15, 30)
  /\ last.briefing_type = "15:40"

-----------------------------------------------------------------------------
(* C27 *)

-----------------------------------------------------------------------------
(* C28 *)

\* C28: every key of time_topics is a slot generate_briefing supports, and
\* run_all_briefings, which runs run_briefing once for each key, obtains
\* success = true for every slot it runs.
C28_AllSlotsSucceed ==
  last.op = "run_all_briefings" =>
    /\ Len(last.results) = Len(time_topics_keys)
    /\ \A i \in 1..Len(last.results) :
         /\ last.results[i].time_slot = time_topics_keys[i]
         /\ last.results[i].time_slot \in TimeSlots
         /\ last.results[i].success

-----------------------------------------------------------------------------
(* C29 *)

\* The steps of run_briefing, in the order of its try block.
PipelineOrder == <<"collect", "generate", "publish">>

\* The step is among those the call entered.
Entered(steps, step) == \E i \in 1..Len(steps) : steps[i] = step

\* C29: within one run_briefing call the steps happen in the order data
\* collection, briefing generation, publish; the publisher is invoked at
\* most once and only after generation succeeded, with the text generated;
\* when it is not invoked no request is sent and the publisher is as it
\* was; for an unsupported time slot the publisher is not invoked and the
\* publish history is left unchanged.
C29_PipelineOrder ==
  [][last'.op = "run_briefing" =>
       LET before == threads_publisher.post_history
           after  == threads_publisher'.post_history
       IN /\ last'.steps # <<>>
          /\ IsPrefix(last'.steps, PipelineOrder)
          /\ IsPrefix(before, after)
          /\ Len(after) <= Len(before) + 1
          /\ Entered(last'.steps, "publish") <=> Len(after) = Len(before) + 1
          /\ Entered(last'.steps, "publish") =>
               /\ last'.ok /\ last'.error = "none"
               /\ last'.time_slot \in TimeSlots
               /\ Truthy(last'.ret)
               /\ last'.briefing_content =
                    format_for_threads(
                      generate_briefing(last'.time_slot,
                                        time_topics(last'.time_slot), last'.ret))
               /\ after[Len(after)] =
                    [time_slot |-> last'.time_slot, topic |-> last'.topic,
                     content |-> last'.briefing_content,
                     result |-> last'.publish_result]
          /\ ~Entered(last'.steps, "publish") =>
               /\ ~last'.ok
               /\ last'.requests = <<>>
               /\ threads_publisher' = threads_publisher
          /\ last'.time_slot \notin TimeSlots =>
               /\ ~Entered(last'.steps, "publish")
               /\ after = before]_vars

\* A run on a configured client went through the three steps: it sent the
\* two requests and its record is the only one of the history.
C29_Witness ==
  /\ last.op = "run_briefing"
  /\ last.time_slot = "19:00"
  /\ last.steps = PipelineOrder
  /\ RequestsTo(last.requests, "publish_url") # {}
  /\ Len(threads_publisher.post_history) = 1
  /\ threads_publisher.post_history[1].content = last.briefing_content

-----------------------------------------------------------------------------
(* C30 *)

\* The key a save_market_data step writes.
SavedKey == <<today, last'.time_slot>>

\* C30: when save_market_data returns false for a (today, data_type) key
\* that already holds a readable record, the record of that key is as it
\* was and a following load_market_data of the key returns the previously
\* saved snapshot.
C30_FailedSaveIntact ==
  [][(/\ SaveStep /\ ~last'.ok
      /\ SavedKey \in DOMAIN store
      /\ store[SavedKey].text.complete) =>
       /\ store'[SavedKey] = store[SavedKey]
       /\ load_market_data(store', today, last'.time_slot)
            = store[SavedKey].market_data]_vars

====
